---- MODULE Spec2Model ----
(***************************************************************************)
(* Model of the index-keyed Grafo of grafos.js (adjacency lists kept as    *)
(* linked lists sorted by adjacent vertex), its edge mutators and the      *)
(* algorithms that run over it.                                            *)
(*                                                                         *)
(* A linked list listaAdjacencia[i] is a sequence of ElemLista records in  *)
(* link order; null is the empty sequence.  A cursor into a list is an     *)
(* index, Len+1 standing for null.                                         *)
(*                                                                         *)
(* The file also holds the label-keyed Grafo (a Map from vertex label to   *)
(* an array of {destino, peso}) and its DisjointSet (Maps parent and       *)
(* rank); their state is in vertices, parent and rank.                     *)
(*                                                                         *)
(* execucao is the activation of an algorithm that is followed step by     *)
(* step: its name, where it stands and its local variables.  ancestral and *)
(* altura are the arrays of an index-keyed DisjointSet object used on its  *)
(* own.                                                                    *)
(***************************************************************************)
EXTENDS Integers, Sequences, FiniteSets, TLC

VARIABLES numVertices, numArestas, direcionado, ponderado, listaAdjacencia,
          chamada, retorno, saida, custoTotal,
          vertices, parent, rank, execucao, ancestral, altura

vars == <<numVertices, numArestas, direcionado, ponderado, listaAdjacencia,
          chamada, retorno, saida, custoTotal,
          vertices, parent, rank, execucao, ancestral, altura>>

(***************************************************************************)
(* Bounds of the exploration.                                              *)
(***************************************************************************)
MaxVertices == 3
MaxArestas == 2

\* elements of a DisjointSet used on its own: four make a tree of height 2
MaxElementos == 4

Pesos == {1, 3}
PesosGrandes == {1, 3, 1000000}
PesosExemplo == {1, 3, 5}

NumVerticesMain == 4
ArestasExemplo == 3

INFINITO == 999999

Vertices == 0 .. (numVertices - 1)

\* vertex arguments a caller may pass: every vertex, one below and one above
Args == -1 .. numVertices

ElemLista(verticeAdjacente, peso) ==
    [verticeAdjacente |-> verticeAdjacente, peso |-> peso]

Aresta(verticeOrigem, verticeDestino, peso) ==
    [verticeOrigem |-> verticeOrigem, verticeDestino |-> verticeDestino, peso |-> peso]

\* the mutable part of a Grafo object
Grafo(lista, n) == [listaAdjacencia |-> lista, numArestas |-> n]

Estado == Grafo(listaAdjacencia, numArestas)

(***************************************************************************)
(* Edge mutators.                                                          *)
(***************************************************************************)
RECURSIVE Avanca(_, _, _)
\* the while loop shared by insereArestaAux, removeArestaAux, arestaExiste:
\* advance corrente while it is not null and its vertex is below the target
Avanca(l, verticeDestino, corrente) ==
    IF corrente <= Len(l) /\ l[corrente].verticeAdjacente < verticeDestino
    THEN Avanca(l, verticeDestino, corrente + 1)
    ELSE corrente

\* insereArestaAux with the new element always linked at the head of the list
InsereArestaAuxNaCabeca(lista, verticeOrigem, verticeDestino, peso) ==
    LET l == lista[verticeOrigem]
        corrente == Avanca(l, verticeDestino, 1)
    IN  IF corrente <= Len(l) /\ l[corrente].verticeAdjacente = verticeDestino
        THEN [ok |-> FALSE, lista |-> lista]
        ELSE [ok |-> TRUE,
              lista |-> [lista EXCEPT ![verticeOrigem] =
                            <<ElemLista(verticeDestino, peso)>> \o l]]

InsereArestaAux(lista, verticeOrigem, verticeDestino, peso) ==
    LET l == lista[verticeOrigem]
        corrente == Avanca(l, verticeDestino, 1)
    IN  IF corrente <= Len(l) /\ l[corrente].verticeAdjacente = verticeDestino
        THEN [ok |-> FALSE, lista |-> lista]
        ELSE [ok |-> TRUE,
              lista |-> [lista EXCEPT ![verticeOrigem] =
                            SubSeq(l, 1, corrente - 1)
                            \o <<ElemLista(verticeDestino, peso)>>
                            \o SubSeq(l, corrente, Len(l))]]

RemoveArestaAux(lista, verticeOrigem, verticeDestino) ==
    LET l == lista[verticeOrigem]
        corrente == Avanca(l, verticeDestino, 1)
    IN  IF corrente <= Len(l) /\ l[corrente].verticeAdjacente = verticeDestino
        THEN [ok |-> TRUE,
              lista |-> [lista EXCEPT ![verticeOrigem] =
                            SubSeq(l, 1, corrente - 1)
                            \o SubSeq(l, corrente + 1, Len(l))]]
        ELSE [ok |-> FALSE, lista |-> lista]

\* the validation without its test for source = destination
EntradaInvalidaSemLaco(verticeOrigem, verticeDestino) ==
    \/ verticeOrigem < 0
    \/ verticeDestino < 0
    \/ verticeOrigem >= numVertices
    \/ verticeDestino >= numVertices

EntradaInvalida(verticeOrigem, verticeDestino) ==
    \/ verticeOrigem < 0
    \/ verticeDestino < 0
    \/ verticeOrigem >= numVertices
    \/ verticeDestino >= numVertices
    \/ verticeOrigem = verticeDestino

ArestaExiste(lista, verticeOrigem, verticeDestino) ==
    IF \/ verticeOrigem < 0
       \/ verticeDestino < 0
       \/ verticeOrigem >= numVertices
       \/ verticeDestino >= numVertices
    THEN FALSE
    ELSE LET l == lista[verticeOrigem]
             atual == Avanca(l, verticeDestino, 1)
         IN  atual <= Len(l) /\ l[atual].verticeAdjacente = verticeDestino

PesoReal(peso) == IF ponderado THEN peso ELSE 1

\* adicionaAresta with the reverse entry given the caller's weight instead of
\* the resolved one
AdicionaArestaOpPesoCru(g, verticeOrigem, verticeDestino, peso) ==
    IF EntradaInvalida(verticeOrigem, verticeDestino)
    THEN [g |-> g, retorno |-> "undefined", saida |-> "Entrada invalida"]
    ELSE LET pesoReal == PesoReal(peso)
             ida == InsereArestaAux(g.listaAdjacencia, verticeOrigem, verticeDestino, pesoReal)
             volta == InsereArestaAux(ida.lista, verticeDestino, verticeOrigem, peso)
         IN  IF ida.ok
             THEN [g |-> Grafo(IF ~direcionado THEN volta.lista ELSE ida.lista,
                               g.numArestas + 1),
                   retorno |-> "undefined", saida |-> ""]
             ELSE [g |-> g, retorno |-> "undefined", saida |-> ""]

\* adicionaAresta with numArestas incremented outside the test of the
\* primary insertion
AdicionaArestaOpContaSempre(g, verticeOrigem, verticeDestino, peso) ==
    IF EntradaInvalida(verticeOrigem, verticeDestino)
    THEN [g |-> g, retorno |-> "undefined", saida |-> "Entrada invalida"]
    ELSE LET pesoReal == PesoReal(peso)
             ida == InsereArestaAux(g.listaAdjacencia, verticeOrigem, verticeDestino, pesoReal)
             volta == InsereArestaAux(ida.lista, verticeDestino, verticeOrigem, pesoReal)
         IN  IF ida.ok
             THEN [g |-> Grafo(IF ~direcionado THEN volta.lista ELSE ida.lista,
                               g.numArestas + 1),
                   retorno |-> "undefined", saida |-> ""]
             ELSE [g |-> Grafo(g.listaAdjacencia, g.numArestas + 1),
                   retorno |-> "undefined", saida |-> ""]

\* adicionaAresta as a function of the graph: the graph it leaves, the value
\* it returns (it has no return statement with a value) and what it prints
AdicionaArestaOp(g, verticeOrigem, verticeDestino, peso) ==
    IF EntradaInvalida(verticeOrigem, verticeDestino)
    THEN [g |-> g, retorno |-> "undefined", saida |-> "Entrada invalida"]
    ELSE LET pesoReal == PesoReal(peso)
             ida == InsereArestaAux(g.listaAdjacencia, verticeOrigem, verticeDestino, pesoReal)
             volta == InsereArestaAux(ida.lista, verticeDestino, verticeOrigem, pesoReal)
         IN  IF ida.ok
             THEN [g |-> Grafo(IF ~direcionado THEN volta.lista ELSE ida.lista,
                               g.numArestas + 1),
                   retorno |-> "undefined", saida |-> ""]
             ELSE [g |-> g, retorno |-> "undefined", saida |-> ""]

AdicionaArestaDirecionadaOp(g, verticeOrigem, verticeDestino, peso) ==
    IF EntradaInvalida(verticeOrigem, verticeDestino)
    THEN [g |-> g, retorno |-> "undefined", saida |-> "Entrada invalida"]
    ELSE LET pesoReal == PesoReal(peso)
             ida == InsereArestaAux(g.listaAdjacencia, verticeOrigem, verticeDestino, pesoReal)
         IN  IF ida.ok
             THEN [g |-> Grafo(ida.lista, g.numArestas + 1),
                   retorno |-> "undefined", saida |-> ""]
             ELSE [g |-> g, retorno |-> "undefined", saida |-> ""]

\* removeAresta without the removal of the reverse entry
RemoveArestaOpSemVolta(g, verticeOrigem, verticeDestino, forApagaReverso) ==
    IF EntradaInvalida(verticeOrigem, verticeDestino)
    THEN [g |-> g, retorno |-> "false",
          saida |-> IF ~forApagaReverso THEN "Entrada invalida para remocao" ELSE ""]
    ELSE LET ida == RemoveArestaAux(g.listaAdjacencia, verticeOrigem, verticeDestino)
         IN  IF ida.ok
             THEN [g |-> Grafo(ida.lista, g.numArestas - 1),
                   retorno |-> "true", saida |-> ""]
             ELSE [g |-> g, retorno |-> "false", saida |-> ""]

\* removeAresta without the decrement of numArestas
RemoveArestaOpSemDecremento(g, verticeOrigem, verticeDestino, forApagaReverso) ==
    IF EntradaInvalida(verticeOrigem, verticeDestino)
    THEN [g |-> g, retorno |-> "false",
          saida |-> IF ~forApagaReverso THEN "Entrada invalida para remocao" ELSE ""]
    ELSE LET ida == RemoveArestaAux(g.listaAdjacencia, verticeOrigem, verticeDestino)
             volta == RemoveArestaAux(ida.lista, verticeDestino, verticeOrigem)
         IN  IF ida.ok
             THEN [g |-> Grafo(IF ~direcionado THEN volta.lista ELSE ida.lista,
                               g.numArestas),
                   retorno |-> "true", saida |-> ""]
             ELSE [g |-> g, retorno |-> "false", saida |-> ""]

RemoveArestaOp(g, verticeOrigem, verticeDestino, forApagaReverso) ==
    IF EntradaInvalida(verticeOrigem, verticeDestino)
    THEN [g |-> g, retorno |-> "false",
          saida |-> IF ~forApagaReverso THEN "Entrada invalida para remocao" ELSE ""]
    ELSE LET ida == RemoveArestaAux(g.listaAdjacencia, verticeOrigem, verticeDestino)
             volta == RemoveArestaAux(ida.lista, verticeDestino, verticeOrigem)
         IN  IF ida.ok
             THEN [g |-> Grafo(IF ~direcionado THEN volta.lista ELSE ida.lista,
                               g.numArestas - 1),
                   retorno |-> "true", saida |-> ""]
             ELSE [g |-> g, retorno |-> "false", saida |-> ""]

(***************************************************************************)
(* Edge listing and sorting (Array.prototype.sort is stable).              *)
(***************************************************************************)
RECURSIVE ColetaLista(_, _, _)
\* the inner while loop: the entries of vertex i from cursor atual on, each
\* undirected edge taken once (from its lower endpoint)
ColetaLista(lista, i, atual) ==
    IF atual > Len(lista[i])
    THEN <<>>
    ELSE LET e == lista[i][atual]
         IN  (IF i < e.verticeAdjacente \/ direcionado
              THEN <<Aresta(i, e.verticeAdjacente, e.peso)>>
              ELSE <<>>)
             \o ColetaLista(lista, i, atual + 1)

RECURSIVE ColetaArestas(_, _)
\* the outer for loop over the vertices, from vertex i on
ColetaArestas(lista, i) ==
    IF i >= numVertices
    THEN <<>>
    ELSE ColetaLista(lista, i, 1) \o ColetaArestas(lista, i + 1)

\* the comparator of the sort: negative when a goes before b
Compara(a, b, crescente) ==
    IF crescente THEN a.peso - b.peso ELSE b.peso - a.peso

RECURSIVE PosicaoOrdenada(_, _, _, _)
\* first position of the sorted prefix s whose element must come after x
PosicaoOrdenada(s, x, crescente, k) ==
    IF k <= Len(s) /\ Compara(s[k], x, crescente) <= 0
    THEN PosicaoOrdenada(s, x, crescente, k + 1)
    ELSE k

RECURSIVE OrdenaArestas(_, _)
\* stable sort by weight: each element goes after the elements that compare
\* equal and were before it
OrdenaArestas(arestas, crescente) ==
    IF arestas = <<>>
    THEN <<>>
    ELSE LET n == Len(arestas)
             s == OrdenaArestas(SubSeq(arestas, 1, n - 1), crescente)
             x == arestas[n]
             k == PosicaoOrdenada(s, x, crescente, 1)
         IN  SubSeq(s, 1, k - 1) \o <<x>> \o SubSeq(s, k, Len(s))

(***************************************************************************)
(* Connectivity check and Reverse-Delete.                                  *)
(***************************************************************************)
RECURSIVE DfsUtil(_, _, _), DfsLaco(_, _, _, _)
\* dfsUtil: the visited set after the call
DfsUtil(lista, v, visitado) ==
    DfsLaco(lista, v, 1, visitado \cup {v})

\* the while loop of dfsUtil over the list of v, from cursor atual on
DfsLaco(lista, v, atual, visitado) ==
    IF atual > Len(lista[v])
    THEN visitado
    ELSE LET w == lista[v][atual].verticeAdjacente
         IN  IF w \notin visitado
             THEN DfsLaco(lista, v, atual + 1, DfsUtil(lista, w, visitado))
             ELSE DfsLaco(lista, v, atual + 1, visitado)

\* a connectivity check that always answers connected
EstaConectadoSempre(lista) == TRUE

\* the loop returns false at the first unvisited vertex that has a list, or
\* that has no list and no edge in either direction; an unvisited vertex
\* with an empty list and an incoming edge is passed over
EstaConectadoDFS(lista) ==
    IF numVertices = 0
    THEN TRUE
    ELSE LET visitado == DfsUtil(lista, 0, {})
         IN  \A i \in Vertices :
                i \notin visitado =>
                    /\ lista[i] = <<>>
                    /\ numVertices > 1
                    /\ \E j \in Vertices :
                          /\ i # j
                          /\ \/ ArestaExiste(lista, i, j)
                             \/ ArestaExiste(lista, j, i)

RECURSIVE ApagaReversoLaco(_, _, _)
\* the for loop over the edges sorted by descending weight, from index i on
ApagaReversoLaco(g, arestas, i) ==
    IF i > Len(arestas)
    THEN g
    ELSE LET aresta == arestas[i]
             removida == RemoveArestaOp(g, aresta.verticeOrigem,
                                        aresta.verticeDestino, TRUE)
             reposta == AdicionaArestaOp(removida.g, aresta.verticeOrigem,
                                         aresta.verticeDestino, aresta.peso)
         IN  IF removida.retorno = "true"
             THEN IF ~EstaConectadoDFS(removida.g.listaAdjacencia)
                  THEN ApagaReversoLaco(reposta.g, arestas, i + 1)
                  ELSE ApagaReversoLaco(removida.g, arestas, i + 1)
             ELSE ApagaReversoLaco(g, arestas, i + 1)

RECURSIVE SomaPesos(_, _)
SomaPesos(arestas, k) ==
    IF k > Len(arestas) THEN 0 ELSE arestas[k].peso + SomaPesos(arestas, k + 1)

\* the cost loop at the end of algoritmoApagaReverso
CustoRestante(lista) == SomaPesos(ColetaArestas(lista, 0), 1)

AlgoritmoApagaReversoOp(g) ==
    LET arestas == OrdenaArestas(ColetaArestas(g.listaAdjacencia, 0), FALSE)
        final == ApagaReversoLaco(g, arestas, 1)
    IN  [g |-> final, arestas |-> arestas,
         custoTotal |-> CustoRestante(final.listaAdjacencia)]

(***************************************************************************)
(* DisjointSet (index-keyed) and Kruskal.                                  *)
(***************************************************************************)
DisjointSet(numElementos) ==
    [ancestral |-> [indice \in 0 .. (numElementos - 1) |-> indice],
     altura |-> [indice \in 0 .. (numElementos - 1) |-> 0]]

RECURSIVE EncontrarRepresentante(_, _)
\* the structure after the call (paths compressed) and the root returned
EncontrarRepresentante(ds, elemento) ==
    IF ds.ancestral[elemento] # elemento
    THEN LET r == EncontrarRepresentante(ds, ds.ancestral[elemento])
         IN  [ds |-> [r.ds EXCEPT !.ancestral[elemento] = r.raiz], raiz |-> r.raiz]
    ELSE [ds |-> ds, raiz |-> elemento]

\* unirConjuntos without the increment of altura
UnirConjuntosSemAltura(ds, elementoA, elementoB) ==
    LET a == EncontrarRepresentante(ds, elementoA)
        b == EncontrarRepresentante(a.ds, elementoB)
        raizA == a.raiz
        raizB == b.raiz
        d == b.ds
    IN  IF raizA = raizB
        THEN d
        ELSE IF d.altura[raizA] < d.altura[raizB]
             THEN [d EXCEPT !.ancestral[raizA] = raizB]
             ELSE [d EXCEPT !.ancestral[raizB] = raizA]

UnirConjuntos(ds, elementoA, elementoB) ==
    LET a == EncontrarRepresentante(ds, elementoA)
        b == EncontrarRepresentante(a.ds, elementoB)
        raizA == a.raiz
        raizB == b.raiz
        d == b.ds
    IN  IF raizA = raizB
        THEN d
        ELSE IF d.altura[raizA] < d.altura[raizB]
             THEN [d EXCEPT !.ancestral[raizA] = raizB]
             ELSE IF d.altura[raizA] = d.altura[raizB]
                  THEN [d EXCEPT !.ancestral[raizB] = raizA,
                                 !.altura[raizA] = @ + 1]
                  ELSE [d EXCEPT !.ancestral[raizB] = raizA]

RECURSIVE KruskalLaco(_, _, _, _, _)
\* the for loop over the sorted edges, from index k on
KruskalLaco(todasArestas, k, conjuntosDisjuntos, arvoreGeradoraMinima, custo) ==
    IF k > Len(todasArestas)
    THEN [arvoreGeradoraMinima |-> arvoreGeradoraMinima, custoTotal |-> custo,
          conjuntosDisjuntos |-> conjuntosDisjuntos]
    ELSE LET aresta == todasArestas[k]
             a == EncontrarRepresentante(conjuntosDisjuntos, aresta.verticeOrigem)
             b == EncontrarRepresentante(a.ds, aresta.verticeDestino)
         IN  IF a.raiz # b.raiz
             THEN KruskalLaco(todasArestas, k + 1,
                              UnirConjuntos(b.ds, aresta.verticeOrigem,
                                            aresta.verticeDestino),
                              Append(arvoreGeradoraMinima, aresta),
                              custo + aresta.peso)
             ELSE KruskalLaco(todasArestas, k + 1, b.ds,
                              arvoreGeradoraMinima, custo)

\* Kruskal over the edges sorted by descending weight
AlgoritmoKruskalDecrescente(lista) ==
    KruskalLaco(OrdenaArestas(ColetaArestas(lista, 0), FALSE), 1,
                DisjointSet(numVertices), <<>>, 0)

AlgoritmoKruskal(lista) ==
    KruskalLaco(OrdenaArestas(ColetaArestas(lista, 0), TRUE), 1,
                DisjointSet(numVertices), <<>>, 0)

(***************************************************************************)
(* Prim, from its fixed start vertex.                                      *)
(***************************************************************************)
verticeInicialPrim == 1

RECURSIVE MenorNaoVisitado(_, _, _, _, _)
\* the O(V) scan shared by Prim and Dijkstra: the first unmarked vertex, from
\* v on, whose value is strictly below the best so far; -1 when there is none
MenorNaoVisitado(valor, marcado, v, u, menor) ==
    IF v >= numVertices
    THEN u
    ELSE IF ~marcado[v] /\ valor[v] < menor
         THEN MenorNaoVisitado(valor, marcado, v + 1, v, valor[v])
         ELSE MenorNaoVisitado(valor, marcado, v + 1, u, menor)

RECURSIVE PrimRelaxa(_, _, _, _)
\* the while loop over the list of u, from cursor adj on
PrimRelaxa(lista, u, adj, st) ==
    IF adj > Len(lista[u])
    THEN st
    ELSE LET v == lista[u][adj].verticeAdjacente
             peso == lista[u][adj].peso
         IN  IF ~st.naArvore[v] /\ peso < st.chave[v]
             THEN PrimRelaxa(lista, u, adj + 1,
                             [st EXCEPT !.pai[v] = u, !.chave[v] = peso])
             ELSE PrimRelaxa(lista, u, adj + 1, st)

RECURSIVE PrimLaco(_, _, _)
\* the growth loop, from round i on
PrimLaco(lista, i, st) ==
    IF i >= numVertices - 1
    THEN st
    ELSE LET u == MenorNaoVisitado(st.chave, st.naArvore, 0, -1, INFINITO)
         IN  IF u = -1
             THEN st
             ELSE PrimLaco(lista, i + 1,
                           PrimRelaxa(lista, u, 1, [st EXCEPT !.naArvore[u] = TRUE]))

RECURSIVE BuscaPeso(_, _, _, _, _)
\* scan of the list of vertex de for the first entry to vertex para; the
\* value naoAchado when there is none
BuscaPeso(lista, de, para, adj, naoAchado) ==
    IF adj > Len(lista[de])
    THEN naoAchado
    ELSE IF lista[de][adj].verticeAdjacente = para
         THEN lista[de][adj].peso
         ELSE BuscaPeso(lista, de, para, adj + 1, naoAchado)

\* weight looked up for the printed edge pai[i] -- i
PesoArestaPrim(lista, pai, i) ==
    LET direto == BuscaPeso(lista, pai[i], i, 1, INFINITO)
    IN  IF direto = INFINITO
        THEN BuscaPeso(lista, i, pai[i], 1, INFINITO)
        ELSE direto

RECURSIVE PrimArestas(_, _, _)
\* the printing loop, which starts at vertex 1
PrimArestas(lista, st, i) ==
    IF i >= numVertices
    THEN <<>>
    ELSE (IF st.pai[i] # -1
          THEN LET pesoAresta == PesoArestaPrim(lista, st.pai, i)
               IN  <<Aresta(st.pai[i], i,
                            IF pesoAresta # INFINITO THEN pesoAresta
                                                     ELSE st.chave[i])>>
          ELSE <<>>)
         \o PrimArestas(lista, st, i + 1)

\* weight added to custoCalculadoPrim for vertex i
PesoCalculadoPrim(lista, pai, i) ==
    LET direto == BuscaPeso(lista, pai[i], i, 1, -1)
        inverso == BuscaPeso(lista, i, pai[i], 1, -1)
    IN  IF direto # -1
        THEN direto
        ELSE IF ~direcionado /\ inverso # -1 THEN inverso ELSE 0

RECURSIVE CustoCalculadoPrim(_, _, _)
\* the second cost loop, which starts at vertex 0; its sum is the one printed
CustoCalculadoPrim(lista, pai, i) ==
    IF i >= numVertices
    THEN 0
    ELSE (IF pai[i] # -1 THEN PesoCalculadoPrim(lista, pai, i) ELSE 0)
         + CustoCalculadoPrim(lista, pai, i + 1)

AlgoritmoPrim(lista) ==
    IF verticeInicialPrim < 0 \/ verticeInicialPrim >= numVertices
    THEN [valido |-> FALSE, arestas |-> <<>>, custoTotal |-> 0, pai |-> <<>>]
    ELSE LET st0 == [chave |-> [v \in Vertices |->
                                   IF v = verticeInicialPrim THEN 0 ELSE INFINITO],
                     naArvore |-> [v \in Vertices |-> FALSE],
                     pai |-> [v \in Vertices |-> -1]]
             st == PrimLaco(lista, 0, st0)
         IN  [valido |-> TRUE,
              arestas |-> PrimArestas(lista, st, 1),
              custoTotal |-> CustoCalculadoPrim(lista, st.pai, 0),
              pai |-> st.pai]

(***************************************************************************)
(* Dijkstra and Floyd-Warshall.                                            *)
(***************************************************************************)
RECURSIVE DijkstraRelaxa(_, _, _, _)
\* the while loop over the list of verticeAtual, from cursor vizinho on
DijkstraRelaxa(lista, verticeAtual, vizinho, st) ==
    IF vizinho > Len(lista[verticeAtual])
    THEN st
    ELSE LET verticeVizinho == lista[verticeAtual][vizinho].verticeAdjacente
             pesoAresta == lista[verticeAtual][vizinho].peso
         IN  IF /\ ~st.visitado[verticeVizinho]
                /\ st.distancias[verticeAtual] # INFINITO
                /\ st.distancias[verticeAtual] + pesoAresta
                      < st.distancias[verticeVizinho]
             THEN DijkstraRelaxa(lista, verticeAtual, vizinho + 1,
                      [st EXCEPT !.distancias[verticeVizinho] =
                                    st.distancias[verticeAtual] + pesoAresta])
             ELSE DijkstraRelaxa(lista, verticeAtual, vizinho + 1, st)

RECURSIVE DijkstraLaco(_, _, _)
DijkstraLaco(lista, contador, st) ==
    IF contador >= numVertices - 1
    THEN st
    ELSE LET verticeAtual ==
                 MenorNaoVisitado(st.distancias, st.visitado, 0, -1, INFINITO)
         IN  IF verticeAtual = -1
             THEN st
             ELSE DijkstraLaco(lista, contador + 1,
                      DijkstraRelaxa(lista, verticeAtual, 1,
                                     [st EXCEPT !.visitado[verticeAtual] = TRUE]))

\* the distance vector algoritmoDijkstra computes
AlgoritmoDijkstra(lista, verticeInicial) ==
    DijkstraLaco(lista, 0,
        [distancias |-> [v \in Vertices |->
                            IF v = verticeInicial THEN 0 ELSE INFINITO],
         visitado |-> [v \in Vertices |-> FALSE]]).distancias

RECURSIVE FloydSemeia(_, _, _, _)
\* the while loop that copies the list of vertex i into row i
FloydSemeia(lista, i, atual, linha) ==
    IF atual > Len(lista[i])
    THEN linha
    ELSE FloydSemeia(lista, i, atual + 1,
                     [linha EXCEPT ![lista[i][atual].verticeAdjacente] =
                                      lista[i][atual].peso])

RECURSIVE FloydJ(_, _, _, _)
\* the innermost loop: relax dist[i][j] through k, from column j on
FloydJ(dist, k, i, j) ==
    IF j >= numVertices
    THEN dist
    ELSE IF /\ dist[i][k] # INFINITO
            /\ dist[k][j] # INFINITO
            /\ dist[i][k] + dist[k][j] < dist[i][j]
         THEN FloydJ([dist EXCEPT ![i][j] = dist[i][k] + dist[k][j]], k, i, j + 1)
         ELSE FloydJ(dist, k, i, j + 1)

RECURSIVE FloydI(_, _, _)
FloydI(dist, k, i) ==
    IF i >= numVertices
    THEN dist
    ELSE FloydI(FloydJ(dist, k, i, 0), k, i + 1)

RECURSIVE FloydLaco(_, _)
\* the outer loop over the intermediate vertex, from k on
FloydLaco(dist, k) ==
    IF k >= numVertices
    THEN dist
    ELSE FloydLaco(FloydI(dist, k, 0), k + 1)

\* the matrix algoritmoFloyd computes
AlgoritmoFloyd(lista) ==
    FloydLaco([i \in Vertices |->
                  FloydSemeia(lista, i, 1,
                              [j \in Vertices |-> IF i = j THEN 0 ELSE INFINITO])],
              0)

(***************************************************************************)
(* State machine: a Grafo object and the calls made on it.                 *)
(***************************************************************************)
\* no algorithm has been called
Ocioso == [algoritmo |-> "nenhum", pc |-> "ocioso", st |-> <<>>]

\* the constructor's parameter vertices is written nVertices here
Construtor(nVertices) ==
    /\ numVertices = nVertices
    /\ numArestas = 0
    /\ direcionado \in BOOLEAN
    /\ ponderado \in BOOLEAN
    /\ listaAdjacencia = [i \in 0 .. (nVertices - 1) |-> <<>>]
    /\ chamada = "constructor"
    /\ retorno = "undefined"
    /\ saida = ""
    /\ custoTotal = 0
    /\ execucao = Ocioso
    /\ ancestral = <<>>
    /\ altura = <<>>

\* no label-keyed object has been constructed
SemRotulos ==
    /\ vertices = <<>>
    /\ parent = <<>>
    /\ rank = <<>>

Init == Construtor(MaxVertices) /\ SemRotulos

Efeito(nome, r) ==
    /\ listaAdjacencia' = r.g.listaAdjacencia
    /\ numArestas' = r.g.numArestas
    /\ chamada' = nome
    /\ retorno' = r.retorno
    /\ saida' = r.saida
    /\ custoTotal' = 0
    /\ UNCHANGED <<numVertices, direcionado, ponderado>>
    /\ UNCHANGED <<vertices, parent, rank, execucao, ancestral, altura>>

AdicionaAresta(verticeOrigem, verticeDestino, peso) ==
    Efeito("adicionaAresta",
           AdicionaArestaOp(Estado, verticeOrigem, verticeDestino, peso))

AdicionaArestaDirecionada(verticeOrigem, verticeDestino, peso) ==
    Efeito("adicionaArestaDirecionada",
           AdicionaArestaDirecionadaOp(Estado, verticeOrigem, verticeDestino, peso))

RemoveAresta(verticeOrigem, verticeDestino) ==
    Efeito("removeAresta",
           RemoveArestaOp(Estado, verticeOrigem, verticeDestino, FALSE))

AlgoritmoApagaReverso ==
    LET r == AlgoritmoApagaReversoOp(Estado)
    IN  /\ listaAdjacencia' = r.g.listaAdjacencia
        /\ numArestas' = r.g.numArestas
        /\ chamada' = "algoritmoApagaReverso"
        /\ retorno' = "undefined"
        /\ saida' = "Custo total da MST (Apaga Reverso)"
        /\ custoTotal' = r.custoTotal
        /\ UNCHANGED <<numVertices, direcionado, ponderado>>
        /\ UNCHANGED <<vertices, parent, rank, execucao, ancestral, altura>>

\* insertions are explored while numArestas is below the bound
Next ==
    \/ \E o \in Args, d \in Args, p \in Pesos :
          numArestas < MaxArestas /\ AdicionaAresta(o, d, p)
    \/ \E o \in Args, d \in Args, p \in Pesos :
          numArestas < MaxArestas /\ AdicionaArestaDirecionada(o, d, p)
    \/ \E o \in Args, d \in Args : RemoveAresta(o, d)
    \/ AlgoritmoApagaReverso

Spec == Init /\ [][Next]_vars

(***************************************************************************)
(* A graph used as its kind intends (criarGrafoExemplo): the one-way       *)
(* insertion only on a graph created directed.                             *)
(***************************************************************************)
\* insertions are explored up to as many edges as vertices (room for a cycle)
NextProprio ==
    \/ \E o \in Args, d \in Args, p \in PesosGrandes :
          numArestas < numVertices /\ AdicionaAresta(o, d, p)
    \/ \E o \in Args, d \in Args, p \in PesosGrandes :
          /\ numArestas < numVertices
          /\ direcionado
          /\ AdicionaArestaDirecionada(o, d, p)
    \/ \E o \in Args, d \in Args : RemoveAresta(o, d)

SpecProprio == Init /\ [][NextProprio]_vars

(***************************************************************************)
(* The graph of main: 4 vertices, filled by criarGrafoExemplo's calls,     *)
(* then handed to the menu's Reverse-Delete.                               *)
(***************************************************************************)
InitExemplo == Construtor(NumVerticesMain) /\ SemRotulos

\* criarGrafoExemplo makes three insertions, with the method of the kind
NextExemplo ==
    \/ \E o \in Args, d \in Args, p \in PesosExemplo :
          /\ numArestas < ArestasExemplo
          /\ ~direcionado
          /\ AdicionaAresta(o, d, p)
    \/ \E o \in Args, d \in Args, p \in PesosExemplo :
          /\ numArestas < ArestasExemplo
          /\ direcionado
          /\ AdicionaArestaDirecionada(o, d, p)
    \/ AlgoritmoApagaReverso

SpecExemplo == InitExemplo /\ [][NextExemplo]_vars

(***************************************************************************)
(* Breadth-first search.                                                   *)
(***************************************************************************)
RECURSIVE BfsVizinhosComPeso(_, _, _, _)
\* the inner loop with the weight of the entry added instead of 1
BfsVizinhosComPeso(lista, u, vizinho, st) ==
    IF vizinho > Len(lista[u])
    THEN st
    ELSE LET w == lista[u][vizinho].verticeAdjacente
         IN  IF ~st.visitado[w]
             THEN BfsVizinhosComPeso(lista, u, vizinho + 1,
                      [st EXCEPT !.visitado[w] = TRUE,
                                 !.distancias[w] = st.distancias[u]
                                                     + lista[u][vizinho].peso,
                                 !.fila = Append(st.fila, w)])
             ELSE BfsVizinhosComPeso(lista, u, vizinho + 1, st)

RECURSIVE BfsVizinhos(_, _, _, _)
\* the inner while loop over the list of u, from cursor vizinho on
BfsVizinhos(lista, u, vizinho, st) ==
    IF vizinho > Len(lista[u])
    THEN st
    ELSE LET w == lista[u][vizinho].verticeAdjacente
         IN  IF ~st.visitado[w]
             THEN BfsVizinhos(lista, u, vizinho + 1,
                      [st EXCEPT !.visitado[w] = TRUE,
                                 !.distancias[w] = st.distancias[u] + 1,
                                 !.fila = Append(st.fila, w)])
             ELSE BfsVizinhos(lista, u, vizinho + 1, st)

RECURSIVE BfsLaco(_, _)
\* the while loop over the queue: shift the head, scan its list
BfsLaco(lista, st) ==
    IF Len(st.fila) = 0
    THEN st
    ELSE BfsLaco(lista, BfsVizinhos(lista, Head(st.fila), 1,
                                    [st EXCEPT !.fila = Tail(st.fila)]))

\* the distance vector algoritmoBFS computes
AlgoritmoBFS(lista, verticeInicial) ==
    BfsLaco(lista,
        [distancias |-> [v \in Vertices |->
                            IF v = verticeInicial THEN 0 ELSE INFINITO],
         visitado |-> [v \in Vertices |-> v = verticeInicial],
         fila |-> <<verticeInicial>>]).distancias

(***************************************************************************)
(* The algorithms as calls on the Grafo object: none of them assigns to a  *)
(* field of the object; each prints its result and returns nothing.        *)
(***************************************************************************)
SoImprime(nome, texto, custo) ==
    /\ chamada' = nome
    /\ retorno' = "undefined"
    /\ saida' = texto
    /\ custoTotal' = custo
    /\ UNCHANGED <<numVertices, numArestas, direcionado, ponderado, listaAdjacencia>>
    /\ UNCHANGED <<vertices, parent, rank, execucao, ancestral, altura>>

ChamadaAlgoritmoBFS(verticeInicial) ==
    /\ AlgoritmoBFS(listaAdjacencia, verticeInicial) \in [Vertices -> Int]
    /\ SoImprime("algoritmoBFS", "Distancias (usando BFS)", 0)

ChamadaAlgoritmoDijkstra(verticeInicial) ==
    /\ AlgoritmoDijkstra(listaAdjacencia, verticeInicial) \in [Vertices -> Int]
    /\ SoImprime("algoritmoDijkstra", "Distancias (usando Dijkstra)", 0)

ChamadaAlgoritmoFloyd ==
    /\ AlgoritmoFloyd(listaAdjacencia) \in [Vertices -> [Vertices -> Int]]
    /\ SoImprime("algoritmoFloyd", "Matriz de distancias minimas (Floyd-Warshall)", 0)

\* a Kruskal that deletes from the graph, as Reverse-Delete does
ChamadaAlgoritmoKruskalQueApaga ==
    LET r == AlgoritmoApagaReversoOp(Estado)
    IN  /\ listaAdjacencia' = r.g.listaAdjacencia
        /\ numArestas' = r.g.numArestas
        /\ chamada' = "algoritmoKruskal"
        /\ retorno' = "undefined"
        /\ saida' = "Custo total da MST"
        /\ custoTotal' = r.custoTotal
        /\ UNCHANGED <<numVertices, direcionado, ponderado>>
        /\ UNCHANGED <<vertices, parent, rank, execucao, ancestral, altura>>

ChamadaAlgoritmoKruskal ==
    SoImprime("algoritmoKruskal", "Custo total da MST",
              AlgoritmoKruskal(listaAdjacencia).custoTotal)

ChamadaAlgoritmoPrim ==
    LET r == AlgoritmoPrim(listaAdjacencia)
    IN  IF r.valido
        THEN SoImprime("algoritmoPrim", "Custo total da MST", r.custoTotal)
        ELSE SoImprime("algoritmoPrim", "Vertice inicial invalido para Prim.", 0)

\* a graph filled with the insertion of its kind and handed to the
\* algorithms: an undirected graph up to as many edges as vertices (room for
\* a cycle), a directed graph up to criarGrafoExemplo's three insertions
NextAlgoritmos ==
    \/ \E o \in Vertices, d \in Vertices, p \in Pesos :
          /\ numArestas < numVertices
          /\ ~direcionado
          /\ AdicionaAresta(o, d, p)
    \/ \E o \in Vertices, d \in Vertices, p \in Pesos :
          /\ numArestas < ArestasExemplo
          /\ direcionado
          /\ AdicionaArestaDirecionada(o, d, p)
    \/ \E s \in Vertices : ChamadaAlgoritmoBFS(s)
    \/ \E s \in Vertices : ChamadaAlgoritmoDijkstra(s)
    \/ ChamadaAlgoritmoFloyd
    \/ ChamadaAlgoritmoKruskal
    \/ ChamadaAlgoritmoPrim
    \/ AlgoritmoApagaReverso

SpecAlgoritmos == Init /\ [][NextAlgoritmos]_vars

(***************************************************************************)
(* The label-keyed Grafo.  A Map is the sequence of its entries in         *)
(* insertion order, each [chave, valor]; vertices maps a label to the      *)
(* array of its {destino, peso} records.  Labels are ordered values        *)
(* (compared with > by ordenarArestasPorPeso).                             *)
(***************************************************************************)
Rotulos == 1 .. MaxVertices

\* what prim receives when it is called without an argument; !inicial holds
\* of it
SemArgumento == 0

Chaves(mapa) == [k \in DOMAIN mapa |-> mapa[k].chave]

Tem(mapa, chave) == \E k \in DOMAIN mapa : mapa[k].chave = chave

Posicao(mapa, chave) == CHOOSE k \in DOMAIN mapa : mapa[k].chave = chave

Obtem(mapa, chave) == mapa[Posicao(mapa, chave)].valor

AdicionarVertice(mapa, vertice) ==
    IF ~Tem(mapa, vertice)
    THEN Append(mapa, [chave |-> vertice, valor |-> <<>>])
    ELSE mapa

\* push of one adjacency record onto the array of vertex origem
Empilha(mapa, origem, destino, peso) ==
    [mapa EXCEPT ![Posicao(mapa, origem)].valor =
                    Append(@, [destino |-> destino, peso |-> peso])]

AdicionarArestaOp(mapa, origem, destino, peso) ==
    LET comVertices == AdicionarVertice(AdicionarVertice(mapa, origem), destino)
        ida == Empilha(comVertices, origem, destino, peso)
    IN  IF ~direcionado
        THEN Empilha(ida, destino, origem, peso)
        ELSE ida

RECURSIVE ColetaAdjacentes(_, _, _)
\* the inner loop of ordenarArestasPorPeso over one array, from index k on
ColetaAdjacentes(origem, adjacentes, k) ==
    IF k > Len(adjacentes)
    THEN <<>>
    ELSE (IF ~direcionado /\ origem > adjacentes[k].destino
          THEN <<>>
          ELSE <<[origem |-> origem, destino |-> adjacentes[k].destino,
                  peso |-> adjacentes[k].peso]>>)
         \o ColetaAdjacentes(origem, adjacentes, k + 1)

RECURSIVE ColetaVertices(_, _)
\* the outer loop over the Map's entries, from entry k on
ColetaVertices(mapa, k) ==
    IF k > Len(mapa)
    THEN <<>>
    ELSE ColetaAdjacentes(mapa[k].chave, mapa[k].valor, 1)
         \o ColetaVertices(mapa, k + 1)

OrdenarArestasPorPeso(mapa, crescente) ==
    OrdenaArestas(ColetaVertices(mapa, 1), crescente)

(***************************************************************************)
(* The label-keyed DisjointSet: parent and rank are Maps, kept as          *)
(* functions on their keys.                                                *)
(***************************************************************************)
Conjuntos(p, r) == [parent |-> p, rank |-> r]

\* parent.set(x, x); rank.set(x, 0)
MakeSet(ds, x) ==
    Conjuntos((x :> x) @@ ds.parent, (x :> 0) @@ ds.rank)

RECURSIVE Find(_, _)
\* the structure after the call (path compressed) and the value returned
Find(ds, x) ==
    IF ds.parent[x] # x
    THEN LET r == Find(ds, ds.parent[x])
         IN  [ds |-> [r.ds EXCEPT !.parent[x] = r.raiz], raiz |-> r.raiz]
    ELSE [ds |-> ds, raiz |-> x]

\* a union that moves x alone, not its root, under the root of y
UnionMoveSoElemento(ds, x, y) ==
    LET a == Find(ds, x)
        b == Find(a.ds, y)
        d == b.ds
    IN  IF a.raiz = b.raiz
        THEN d
        ELSE [d EXCEPT !.parent[x] = b.raiz]

Union(ds, x, y) ==
    LET a == Find(ds, x)
        b == Find(a.ds, y)
        rootX == a.raiz
        rootY == b.raiz
        d == b.ds
    IN  IF rootX = rootY
        THEN d
        ELSE IF d.rank[rootX] < d.rank[rootY]
             THEN [d EXCEPT !.parent[rootX] = rootY]
             ELSE IF d.rank[rootX] = d.rank[rootY]
                  THEN [d EXCEPT !.parent[rootY] = rootX, !.rank[rootX] = @ + 1]
                  ELSE [d EXCEPT !.parent[rootY] = rootX]

RECURSIVE MakeSets(_, _, _)
\* makeSet for every key of the Map, from entry k on
MakeSets(mapa, k, ds) ==
    IF k > Len(mapa)
    THEN ds
    ELSE MakeSets(mapa, k + 1, MakeSet(ds, mapa[k].chave))

(***************************************************************************)
(* kruskal, prim and apagaReservo of the label-keyed Grafo.                *)
(***************************************************************************)
RECURSIVE KruskalRotulosLaco(_, _, _, _)
\* the for loop of kruskal over the sorted edges, from index k on
KruskalRotulosLaco(arestasPorPeso, k, conjuntos, arvoreGeradora) ==
    IF k > Len(arestasPorPeso)
    THEN arvoreGeradora
    ELSE LET aresta == arestasPorPeso[k]
             a == Find(conjuntos, aresta.origem)
             b == Find(a.ds, aresta.destino)
         IN  IF a.raiz # b.raiz
             THEN KruskalRotulosLaco(arestasPorPeso, k + 1,
                                     Union(b.ds, aresta.origem, aresta.destino),
                                     Append(arvoreGeradora, aresta))
             ELSE KruskalRotulosLaco(arestasPorPeso, k + 1, b.ds, arvoreGeradora)

Kruskal(mapa) ==
    KruskalRotulosLaco(OrdenarArestasPorPeso(mapa, TRUE), 1,
                       MakeSets(mapa, 1, Conjuntos(<<>>, <<>>)), <<>>)

Contem(seq, x) == \E k \in DOMAIN seq : seq[k] = x

RECURSIVE MelhorNoArray(_, _, _, _, _)
\* the inner for loop of prim over the array of vertice, from index k on;
\* melhor is [aresta, peso], aresta being <<>> while none is found
MelhorNoArray(vertice, adjacentes, k, visitados, melhor) ==
    IF k > Len(adjacentes)
    THEN melhor
    ELSE IF /\ ~Contem(visitados, adjacentes[k].destino)
            /\ (melhor.aresta = <<>> \/ adjacentes[k].peso < melhor.peso)
         THEN MelhorNoArray(vertice, adjacentes, k + 1, visitados,
                  [aresta |-> <<[origem |-> vertice,
                                 destino |-> adjacentes[k].destino,
                                 peso |-> adjacentes[k].peso]>>,
                   peso |-> adjacentes[k].peso])
         ELSE MelhorNoArray(vertice, adjacentes, k + 1, visitados, melhor)

RECURSIVE MelhorAresta(_, _, _, _)
\* the for loop of prim over the visited vertices in the order they were
\* added, from index k on
MelhorAresta(mapa, visitados, k, melhor) ==
    IF k > Len(visitados)
    THEN melhor
    ELSE MelhorAresta(mapa, visitados, k + 1,
             MelhorNoArray(visitados[k], Obtem(mapa, visitados[k]), 1,
                           visitados, melhor))

RECURSIVE PrimRotulosLaco(_, _, _)
\* the while loop of prim
PrimRotulosLaco(mapa, visitados, arvoreGeradora) ==
    IF Len(visitados) >= Len(mapa)
    THEN arvoreGeradora
    ELSE LET melhor == MelhorAresta(mapa, visitados, 1,
                                    [aresta |-> <<>>, peso |-> 0])
         IN  IF melhor.aresta # <<>>
             THEN PrimRotulosLaco(mapa,
                                  Append(visitados, melhor.aresta[1].destino),
                                  Append(arvoreGeradora, melhor.aresta[1]))
             ELSE arvoreGeradora

\* prim: a missing (falsy) argument is replaced by the first key of the Map;
\* on an empty Map the loop is not entered
Prim(mapa, inicial) ==
    IF Len(mapa) = 0
    THEN <<>>
    ELSE PrimRotulosLaco(mapa,
                         <<IF inicial = SemArgumento THEN mapa[1].chave
                                                     ELSE inicial>>,
                         <<>>)

RECURSIVE UneTodas(_, _, _)
\* union over the remaining edges, from index k on
UneTodas(resultado, k, ds) ==
    IF k > Len(resultado)
    THEN ds
    ELSE UneTodas(resultado, k + 1,
                  Union(ds, resultado[k].origem, resultado[k].destino))

RECURSIVE TodosComRep(_, _, _, _)
\* the loop that compares every vertex's representative with primeiroRep
TodosComRep(mapa, k, ds, primeiroRep) ==
    IF k > Len(mapa)
    THEN TRUE
    ELSE LET f == Find(ds, mapa[k].chave)
         IN  IF f.raiz # primeiroRep
             THEN FALSE
             ELSE TodosComRep(mapa, k + 1, f.ds, primeiroRep)

\* a connectivity test that always answers connected
ConexoPorConjuntosSempre(mapa, resultado) == TRUE

\* the connectivity test of apagaReservo over the edges in resultado
ConexoPorConjuntos(mapa, resultado) ==
    LET testConjuntos == UneTodas(resultado, 1,
                                  MakeSets(mapa, 1, Conjuntos(<<>>, <<>>)))
        primeiro == Find(testConjuntos, mapa[1].chave)
    IN  TodosComRep(mapa, 1, primeiro.ds, primeiro.raiz)

RECURSIVE FindIndex(_, _, _)
\* index of the first element of resultado equal to aresta, 0 for -1
FindIndex(resultado, aresta, k) ==
    IF k > Len(resultado)
    THEN 0
    ELSE IF resultado[k] = aresta THEN k ELSE FindIndex(resultado, aresta, k + 1)

Splice(resultado, index) ==
    IF index # 0
    THEN SubSeq(resultado, 1, index - 1) \o SubSeq(resultado, index + 1, Len(resultado))
    ELSE resultado

RECURSIVE ApagaReservoLaco(_, _, _, _)
\* the for loop of apagaReservo over the edges by descending weight
ApagaReservoLaco(mapa, arestas, k, resultado) ==
    IF k > Len(arestas)
    THEN resultado
    ELSE LET semAresta == Splice(resultado, FindIndex(resultado, arestas[k], 1))
         IN  IF ~ConexoPorConjuntos(mapa, semAresta)
             THEN ApagaReservoLaco(mapa, arestas, k + 1,
                                   Append(semAresta, arestas[k]))
             ELSE ApagaReservoLaco(mapa, arestas, k + 1, semAresta)

ApagaReservo(mapa) ==
    LET arestas == OrdenarArestasPorPeso(mapa, FALSE)
    IN  ApagaReservoLaco(mapa, arestas, 1, arestas)

\* pesoTotal as the menu sums it over a returned list of edges
PesoTotal(arvore) == SomaPesos(arvore, 1)

(***************************************************************************)
(* State machine of the label-keyed Grafo: an undirected graph (the menu   *)
(* starts on one, and offers the three algorithms only on one) grown by    *)
(* adicionarAresta and handed to kruskal, prim and apagaReservo.           *)
(***************************************************************************)
SemIndices ==
    /\ numVertices = 0
    /\ numArestas = 0
    /\ ponderado = TRUE
    /\ listaAdjacencia = <<>>
    /\ execucao = Ocioso
    /\ ancestral = <<>>
    /\ altura = <<>>

InitRotulos ==
    /\ vertices = <<>>
    /\ direcionado = FALSE
    /\ parent = <<>>
    /\ rank = <<>>
    /\ chamada = "constructor"
    /\ retorno = "undefined"
    /\ saida = ""
    /\ custoTotal = 0
    /\ SemIndices

AdicionarAresta(origem, destino, peso) ==
    /\ vertices' = AdicionarArestaOp(vertices, origem, destino, peso)
    /\ chamada' = "adicionarAresta"
    /\ retorno' = "undefined"
    /\ saida' = ""
    /\ custoTotal' = 0
    /\ UNCHANGED <<numVertices, numArestas, direcionado, ponderado, listaAdjacencia>>
    /\ UNCHANGED <<parent, rank, execucao, ancestral, altura>>

\* an algorithm of the label-keyed Grafo returns an array and assigns to no
\* field; the menu prints the array and its total weight
Devolve(nome, arvore) ==
    /\ chamada' = nome
    /\ retorno' = "array"
    /\ saida' = "Peso total da arvore"
    /\ custoTotal' = PesoTotal(arvore)
    /\ UNCHANGED <<numVertices, numArestas, direcionado, ponderado, listaAdjacencia>>
    /\ UNCHANGED <<vertices, parent, rank, execucao, ancestral, altura>>

ChamadaKruskal == Devolve("kruskal", Kruskal(vertices))

ChamadaPrim(inicial) ==
    /\ inicial = SemArgumento \/ Tem(vertices, inicial)
    /\ Devolve("prim", Prim(vertices, inicial))

ChamadaApagaReservo == Devolve("apagaReservo", ApagaReservo(vertices))

RECURSIVE NumRegistros(_, _)
\* the adjacency records held by the Map's entries from entry k on
NumRegistros(mapa, k) ==
    IF k > Len(mapa) THEN 0 ELSE Len(mapa[k].valor) + NumRegistros(mapa, k + 1)

\* the adicionarAresta calls made so far: each pushes two records on an
\* undirected graph and one on a directed graph
NumInsercoes(mapa) ==
    IF direcionado THEN NumRegistros(mapa, 1) ELSE NumRegistros(mapa, 1) \div 2

\* criarGrafoExemplo makes three insertions
NextRotulos ==
    \/ \E o \in Rotulos, d \in Rotulos, p \in Pesos :
          /\ NumInsercoes(vertices) < ArestasExemplo
          /\ AdicionarAresta(o, d, p)
    \/ ChamadaKruskal
    \/ \E inicial \in Rotulos \cup {SemArgumento} : ChamadaPrim(inicial)
    \/ ChamadaApagaReservo

SpecRotulos == InitRotulos /\ [][NextRotulos]_vars

(***************************************************************************)
(* State machine of the label-keyed DisjointSet: makeSet on any label,     *)
(* find and union on the labels it holds.                                  *)
(***************************************************************************)
InitConjuntos ==
    /\ parent = <<>>
    /\ rank = <<>>
    /\ vertices = <<>>
    /\ direcionado = FALSE
    /\ chamada = "constructor"
    /\ retorno = "undefined"
    /\ saida = ""
    /\ custoTotal = 0
    /\ SemIndices

\* a call on the DisjointSet: the structure it leaves and the value returned
EfeitoConjuntos(nome, ds, valor) ==
    /\ parent' = ds.parent
    /\ rank' = ds.rank
    /\ chamada' = nome
    /\ retorno' = valor
    /\ UNCHANGED <<numVertices, numArestas, direcionado, ponderado, listaAdjacencia>>
    /\ UNCHANGED <<saida, custoTotal, vertices, execucao, ancestral, altura>>

ChamadaMakeSet(x) ==
    EfeitoConjuntos("makeSet", MakeSet(Conjuntos(parent, rank), x), "undefined")

ChamadaFind(x) ==
    /\ x \in DOMAIN parent
    /\ LET r == Find(Conjuntos(parent, rank), x)
       IN  EfeitoConjuntos("find", r.ds, r.raiz)

ChamadaUnion(x, y) ==
    /\ x \in DOMAIN parent
    /\ y \in DOMAIN parent
    /\ EfeitoConjuntos("union", Union(Conjuntos(parent, rank), x, y), "undefined")

NextConjuntos ==
    \/ \E x \in Rotulos : ChamadaMakeSet(x)
    \/ \E x \in Rotulos : ChamadaFind(x)
    \/ \E x \in Rotulos, y \in Rotulos : ChamadaUnion(x, y)

SpecConjuntos == InitConjuntos /\ [][NextConjuntos]_vars

(***************************************************************************)
(* Shortest paths of the label-keyed Grafo.  null is written <<>>: a path  *)
(* that is returned always holds its first vertex.                         *)
(***************************************************************************)
\* this.vertices.get(vertice) || []
ObtemOuVazio(mapa, vertice) ==
    IF Tem(mapa, vertice) THEN Obtem(mapa, vertice) ELSE <<>>

RECURSIVE EnfileiraNaFrente(_, _, _, _, _)
\* the for loop with each entry put at the front of the queue, which makes
\* the search depth-first
EnfileiraNaFrente(adjacentes, k, caminho, visitados, fila) ==
    IF k > Len(adjacentes)
    THEN fila
    ELSE IF adjacentes[k].destino \notin visitados
         THEN EnfileiraNaFrente(adjacentes, k + 1, caminho, visitados,
                  <<[vertice |-> adjacentes[k].destino,
                     caminho |-> Append(caminho, adjacentes[k].destino)]>>
                  \o fila)
         ELSE EnfileiraNaFrente(adjacentes, k + 1, caminho, visitados, fila)

RECURSIVE Enfileira(_, _, _, _, _)
\* the for loop over the array of the dequeued vertex, from index k on
Enfileira(adjacentes, k, caminho, visitados, fila) ==
    IF k > Len(adjacentes)
    THEN fila
    ELSE IF adjacentes[k].destino \notin visitados
         THEN Enfileira(adjacentes, k + 1, caminho, visitados,
                  Append(fila, [vertice |-> adjacentes[k].destino,
                                caminho |-> Append(caminho, adjacentes[k].destino)]))
         ELSE Enfileira(adjacentes, k + 1, caminho, visitados, fila)

RECURSIVE MenorCaminhoLaco(_, _, _, _)
\* the while loop over the queue
MenorCaminhoLaco(mapa, destino, fila, visitados) ==
    IF Len(fila) = 0
    THEN <<>>
    ELSE LET vertice == Head(fila).vertice
             caminho == Head(fila).caminho
         IN  IF vertice = destino
             THEN caminho
             ELSE IF vertice \in visitados
                  THEN MenorCaminhoLaco(mapa, destino, Tail(fila), visitados)
                  ELSE MenorCaminhoLaco(mapa, destino,
                           Enfileira(ObtemOuVazio(mapa, vertice), 1, caminho,
                                     visitados \cup {vertice}, Tail(fila)),
                           visitados \cup {vertice})

MenorCaminhoDirecionado(mapa, origem, destino) ==
    MenorCaminhoLaco(mapa, destino,
                     <<[vertice |-> origem, caminho |-> <<origem>>]>>, {})

\* the same code a second time
MenorCaminhoNaoDirecionado(mapa, origem, destino) ==
    MenorCaminhoLaco(mapa, destino,
                     <<[vertice |-> origem, caminho |-> <<origem>>]>>, {})

\* the number Infinity: above every finite distance
Infinity == 1000000000

\* the value undefined of Map.get on a missing key, where a number is expected
Indefinido == -1

\* null where a vertex label is expected
Nulo == 0

RECURSIVE MenorDistancia(_, _, _, _, _)
\* the scan of naoVisitados (in insertion order) for the first vertex whose
\* distance is strictly below the least so far
MenorDistancia(distancias, naoVisitados, k, atual, menorDistancia) ==
    IF k > Len(naoVisitados)
    THEN atual
    ELSE IF distancias[naoVisitados[k]] < menorDistancia
         THEN MenorDistancia(distancias, naoVisitados, k + 1,
                             naoVisitados[k], distancias[naoVisitados[k]])
         ELSE MenorDistancia(distancias, naoVisitados, k + 1,
                             atual, menorDistancia)

RECURSIVE Relaxamento(_, _, _, _)
\* the for loop over the array of atual, from index k on
Relaxamento(adjacentes, k, atual, st) ==
    IF k > Len(adjacentes)
    THEN st
    ELSE LET adj == adjacentes[k]
             novaDistancia == st.distancias[atual] + adj.peso
         IN  IF /\ Contem(st.naoVisitados, adj.destino)
                /\ novaDistancia < st.distancias[adj.destino]
             THEN Relaxamento(adjacentes, k + 1, atual,
                      [st EXCEPT !.distancias[adj.destino] = novaDistancia,
                                 !.anteriores = (adj.destino :> atual) @@ @])
             ELSE Relaxamento(adjacentes, k + 1, atual, st)

RECURSIVE PonderadoLaco(_, _, _)
\* the while loop over naoVisitados
PonderadoLaco(mapa, destino, st) ==
    IF Len(st.naoVisitados) = 0
    THEN st
    ELSE LET atual == MenorDistancia(st.distancias, st.naoVisitados, 1,
                                     Nulo, Infinity)
         IN  IF atual = Nulo \/ atual = destino
             THEN st
             ELSE PonderadoLaco(mapa, destino,
                      Relaxamento(ObtemOuVazio(mapa, atual), 1, atual,
                          [st EXCEPT !.naoVisitados =
                                        SelectSeq(@, LAMBDA v : v # atual)]))

RECURSIVE ReconstroiCaminho(_, _)
\* the while loop that walks anteriores back from destino
ReconstroiCaminho(anteriores, atual) ==
    IF atual \in DOMAIN anteriores
    THEN Append(ReconstroiCaminho(anteriores, anteriores[atual]), atual)
    ELSE <<atual>>

MenorCaminhoDirecionadoPonderado(mapa, origem, destino) ==
    LET chaves == {mapa[k].chave : k \in DOMAIN mapa}
        st == PonderadoLaco(mapa, destino,
                  [distancias |-> [v \in chaves |->
                                      IF v = origem THEN 0 ELSE Infinity],
                   anteriores |-> <<>>,
                   naoVisitados |-> Chaves(mapa)])
        caminho == ReconstroiCaminho(st.anteriores, destino)
    IN  [distancia |-> IF destino \in chaves THEN st.distancias[destino]
                                             ELSE Indefinido,
         caminho |-> IF Len(caminho) > 1 THEN caminho ELSE <<>>]

MenorCaminhoNaoDirecionadoPonderado(mapa, origem, destino) ==
    MenorCaminhoDirecionadoPonderado(mapa, origem, destino)

(***************************************************************************)
(* State machine of the menu's shortest-path options: a graph of either    *)
(* kind grown by adicionarAresta; options 3 and 4 run on a directed graph, *)
(* options 5 and 6 on an undirected one, on the two labels typed in.       *)
(***************************************************************************)
InitCaminhos ==
    /\ vertices = <<>>
    /\ direcionado \in BOOLEAN
    /\ parent = <<>>
    /\ rank = <<>>
    /\ chamada = "constructor"
    /\ retorno = "undefined"
    /\ saida = ""
    /\ custoTotal = 0
    /\ SemIndices

\* what the menu prints for a result: the number is the count of edges or
\* the total distance
Responde(nome, valor, texto, numero) ==
    /\ chamada' = nome
    /\ retorno' = valor
    /\ saida' = texto
    /\ custoTotal' = numero
    /\ UNCHANGED <<numVertices, numArestas, direcionado, ponderado, listaAdjacencia>>
    /\ UNCHANGED <<vertices, parent, rank, execucao, ancestral, altura>>

RespondeCaminho(nome, caminho) ==
    IF caminho # <<>>
    THEN Responde(nome, "array", "Menor caminho encontrado", Len(caminho) - 1)
    ELSE Responde(nome, "null", "Nao existe caminho entre os vertices especificados.", 0)

RespondePonderado(nome, resultado) ==
    IF resultado.caminho # <<>>
    THEN Responde(nome, "object", "Menor caminho", resultado.distancia)
    ELSE Responde(nome, "object", "Nao existe caminho entre os vertices especificados.", 0)

ChamadaMenorCaminhoDirecionado(origem, destino) ==
    /\ direcionado
    /\ RespondeCaminho("menorCaminhoDirecionado",
                       MenorCaminhoDirecionado(vertices, origem, destino))

ChamadaMenorCaminhoDirecionadoPonderado(origem, destino) ==
    /\ direcionado
    /\ RespondePonderado("menorCaminhoDirecionadoPonderado",
                         MenorCaminhoDirecionadoPonderado(vertices, origem, destino))

ChamadaMenorCaminhoNaoDirecionado(origem, destino) ==
    /\ ~direcionado
    /\ RespondeCaminho("menorCaminhoNaoDirecionado",
                       MenorCaminhoNaoDirecionado(vertices, origem, destino))

ChamadaMenorCaminhoNaoDirecionadoPonderado(origem, destino) ==
    /\ ~direcionado
    /\ RespondePonderado("menorCaminhoNaoDirecionadoPonderado",
                         MenorCaminhoNaoDirecionadoPonderado(vertices, origem, destino))

\* criarGrafoExemplo makes three insertions
NextCaminhos ==
    \/ \E o \in Rotulos, d \in Rotulos, p \in Pesos :
          /\ NumInsercoes(vertices) < ArestasExemplo
          /\ AdicionarAresta(o, d, p)
    \/ \E o \in Rotulos, d \in Rotulos : ChamadaMenorCaminhoDirecionado(o, d)
    \/ \E o \in Rotulos, d \in Rotulos : ChamadaMenorCaminhoDirecionadoPonderado(o, d)
    \/ \E o \in Rotulos, d \in Rotulos : ChamadaMenorCaminhoNaoDirecionado(o, d)
    \/ \E o \in Rotulos, d \in Rotulos : ChamadaMenorCaminhoNaoDirecionadoPonderado(o, d)

SpecCaminhos == InitCaminhos /\ [][NextCaminhos]_vars

(***************************************************************************)
(* State machine of the menu's options 3 and 5: a graph of either kind     *)
(* grown by adicionarAresta called without a weight, and the breadth-first *)
(* search of its kind on the two labels typed in.                          *)
(***************************************************************************)
\* the default of the parameter peso
PesoPadrao == 1

NextBuscas ==
    \/ \E o \in Rotulos, d \in Rotulos :
          /\ NumInsercoes(vertices) < ArestasExemplo
          /\ AdicionarAresta(o, d, PesoPadrao)
    \/ \E o \in Rotulos, d \in Rotulos : ChamadaMenorCaminhoDirecionado(o, d)
    \/ \E o \in Rotulos, d \in Rotulos : ChamadaMenorCaminhoNaoDirecionado(o, d)

SpecBuscas == InitCaminhos /\ [][NextBuscas]_vars

(***************************************************************************)
(* The algorithms of the index-keyed Grafo followed step by step.          *)
(* execucao.st holds the locals of the running algorithm.  algoritmoBFS    *)
(* and the depth-first check of algoritmoApagaReverso advance one list     *)
(* entry per step; algoritmoFloyd advances one row (k, i) per step; the    *)
(* other algorithms advance one iteration of their outermost loop per      *)
(* step.  In st of algoritmoBFS, empurrados and                            *)
(* retirados record the vertices pushed onto and shifted off the queue.    *)
(***************************************************************************)
Executando(algoritmo) ==
    execucao.algoritmo = algoritmo /\ execucao.pc = "executando"

\* the call of an algorithm: its locals are initialised
Entra(algoritmo, st) ==
    /\ execucao = Ocioso
    /\ execucao' = [algoritmo |-> algoritmo, pc |-> "executando", st |-> st]
    /\ UNCHANGED <<numVertices, numArestas, direcionado, ponderado, listaAdjacencia>>
    /\ UNCHANGED <<chamada, retorno, saida, custoTotal>>
    /\ UNCHANGED <<vertices, parent, rank, ancestral, altura>>

\* a step that assigns to locals only
Interno(st) ==
    /\ execucao' = [execucao EXCEPT !.st = st]
    /\ UNCHANGED <<numVertices, numArestas, direcionado, ponderado, listaAdjacencia>>
    /\ UNCHANGED <<chamada, retorno, saida, custoTotal>>
    /\ UNCHANGED <<vertices, parent, rank, ancestral, altura>>

\* the end of an algorithm: it prints its result and returns nothing
Retorna(nome, texto, custo) ==
    /\ execucao' = [execucao EXCEPT !.pc = "fim"]
    /\ chamada' = nome
    /\ retorno' = "undefined"
    /\ saida' = texto
    /\ custoTotal' = custo
    /\ UNCHANGED <<numVertices, numArestas, direcionado, ponderado, listaAdjacencia>>
    /\ UNCHANGED <<vertices, parent, rank, ancestral, altura>>

IniciaBFS(verticeInicial) ==
    Entra("algoritmoBFS",
          [distancias |-> [v \in Vertices |->
                              IF v = verticeInicial THEN 0 ELSE INFINITO],
           visitado |-> [v \in Vertices |-> v = verticeInicial],
           fila |-> <<verticeInicial>>,
           u |-> -1,
           vizinho |-> 1,
           empurrados |-> <<verticeInicial>>,
           retirados |-> <<>>])

\* vizinho !== null: the cursor stands on an entry of the list of u
BfsNaLista(st) ==
    st.u # -1 /\ st.vizinho <= Len(listaAdjacencia[st.u])

\* the body of the inner loop without the advance of the cursor
BfsExaminaSemAvanco ==
    /\ Executando("algoritmoBFS")
    /\ BfsNaLista(execucao.st)
    /\ LET st == execucao.st
           w == listaAdjacencia[st.u][st.vizinho].verticeAdjacente
       IN  IF ~st.visitado[w]
           THEN Interno([st EXCEPT !.visitado[w] = TRUE,
                                   !.distancias[w] = st.distancias[st.u] + 1,
                                   !.fila = Append(st.fila, w),
                                   !.empurrados = Append(st.empurrados, w)])
           ELSE Interno(st)

\* the inner loop that marks no vertex visited
BfsExaminaSemMarcar ==
    /\ Executando("algoritmoBFS")
    /\ BfsNaLista(execucao.st)
    /\ LET st == execucao.st
           w == listaAdjacencia[st.u][st.vizinho].verticeAdjacente
       IN  IF ~st.visitado[w]
           THEN Interno([st EXCEPT !.distancias[w] = st.distancias[st.u] + 1,
                                   !.fila = Append(st.fila, w),
                                   !.empurrados = Append(st.empurrados, w),
                                   !.vizinho = @ + 1])
           ELSE Interno([st EXCEPT !.vizinho = @ + 1])

\* fila.shift() and the start of the scan of the list of u
BfsRetira ==
    /\ Executando("algoritmoBFS")
    /\ ~BfsNaLista(execucao.st)
    /\ Len(execucao.st.fila) > 0
    /\ LET st == execucao.st
       IN  Interno([st EXCEPT !.u = Head(st.fila),
                              !.fila = Tail(st.fila),
                              !.vizinho = 1,
                              !.retirados = Append(st.retirados, Head(st.fila))])

\* one iteration of the inner while loop
BfsExamina ==
    /\ Executando("algoritmoBFS")
    /\ BfsNaLista(execucao.st)
    /\ LET st == execucao.st
           w == listaAdjacencia[st.u][st.vizinho].verticeAdjacente
       IN  IF ~st.visitado[w]
           THEN Interno([st EXCEPT !.visitado[w] = TRUE,
                                   !.distancias[w] = st.distancias[st.u] + 1,
                                   !.fila = Append(st.fila, w),
                                   !.empurrados = Append(st.empurrados, w),
                                   !.vizinho = @ + 1])
           ELSE Interno([st EXCEPT !.vizinho = @ + 1])

BfsTermina ==
    /\ Executando("algoritmoBFS")
    /\ ~BfsNaLista(execucao.st)
    /\ Len(execucao.st.fila) = 0
    /\ Retorna("algoritmoBFS", "Distancias (usando BFS)", 0)

IniciaDijkstra(verticeInicial) ==
    Entra("algoritmoDijkstra",
          [distancias |-> [v \in Vertices |->
                              IF v = verticeInicial THEN 0 ELSE INFINITO],
           visitado |-> [v \in Vertices |-> FALSE],
           contador |-> 0])

\* the for loop goes on: contador is in range and a vertex was selected
DijkstraContinua(st) ==
    /\ st.contador < numVertices - 1
    /\ MenorNaoVisitado(st.distancias, st.visitado, 0, -1, INFINITO) # -1

\* one iteration of the for loop: selection, marking, relaxation
DijkstraPasso ==
    /\ Executando("algoritmoDijkstra")
    /\ DijkstraContinua(execucao.st)
    /\ LET st == execucao.st
           verticeAtual == MenorNaoVisitado(st.distancias, st.visitado, 0, -1, INFINITO)
           relaxado == DijkstraRelaxa(listaAdjacencia, verticeAtual, 1,
                                      [st EXCEPT !.visitado[verticeAtual] = TRUE])
       IN  Interno([relaxado EXCEPT !.contador = @ + 1])

DijkstraTermina ==
    /\ Executando("algoritmoDijkstra")
    /\ ~DijkstraContinua(execucao.st)
    /\ Retorna("algoritmoDijkstra", "Distancias (usando Dijkstra)", 0)

IniciaFloyd ==
    Entra("algoritmoFloyd",
          [dist |-> [i \in Vertices |->
                        FloydSemeia(listaAdjacencia, i, 1,
                                    [j \in Vertices |-> IF i = j THEN 0 ELSE INFINITO])],
           k |-> 0,
           i |-> 0])

\* one iteration of the loop over i: row i is relaxed through k; after the
\* last row the loop over k advances
FloydPasso ==
    /\ Executando("algoritmoFloyd")
    /\ execucao.st.k < numVertices
    /\ LET st == execucao.st
           dist == FloydJ(st.dist, st.k, st.i, 0)
       IN  IF st.i + 1 < numVertices
           THEN Interno([dist |-> dist, k |-> st.k, i |-> st.i + 1])
           ELSE Interno([dist |-> dist, k |-> st.k + 1, i |-> 0])

FloydTermina ==
    /\ Executando("algoritmoFloyd")
    /\ execucao.st.k >= numVertices
    /\ Retorna("algoritmoFloyd", "Matriz de distancias minimas (Floyd-Warshall)", 0)

IniciaKruskal ==
    Entra("algoritmoKruskal",
          [todasArestas |-> OrdenaArestas(ColetaArestas(listaAdjacencia, 0), TRUE),
           k |-> 1,
           conjuntosDisjuntos |-> DisjointSet(numVertices),
           arvoreGeradoraMinima |-> <<>>,
           custoTotal |-> 0])

\* one iteration of the for loop over the sorted edges; the results of the
\* two encontrarRepresentante calls and of unirConjuntos are bound by \E,
\* each computed once
KruskalPasso ==
    /\ Executando("algoritmoKruskal")
    /\ execucao.st.k <= Len(execucao.st.todasArestas)
    /\ LET st == execucao.st
           aresta == st.todasArestas[st.k]
       IN  \E a \in {EncontrarRepresentante(st.conjuntosDisjuntos,
                                            aresta.verticeOrigem)} :
           \E b \in {EncontrarRepresentante(a.ds, aresta.verticeDestino)} :
              IF a.raiz # b.raiz
              THEN \E unido \in {UnirConjuntos(b.ds, aresta.verticeOrigem,
                                               aresta.verticeDestino)} :
                      Interno([st EXCEPT
                                  !.k = @ + 1,
                                  !.conjuntosDisjuntos = unido,
                                  !.arvoreGeradoraMinima = Append(@, aresta),
                                  !.custoTotal = @ + aresta.peso])
              ELSE Interno([st EXCEPT !.k = @ + 1, !.conjuntosDisjuntos = b.ds])

KruskalTermina ==
    /\ Executando("algoritmoKruskal")
    /\ execucao.st.k > Len(execucao.st.todasArestas)
    /\ Retorna("algoritmoKruskal", "Custo total da MST", execucao.st.custoTotal)

\* the call of algoritmoPrim; it returns at once on an invalid start vertex
IniciaPrim ==
    IF verticeInicialPrim < 0 \/ verticeInicialPrim >= numVertices
    THEN /\ execucao = Ocioso
         /\ execucao' = [algoritmo |-> "algoritmoPrim", pc |-> "fim", st |-> <<>>]
         /\ chamada' = "algoritmoPrim"
         /\ retorno' = "undefined"
         /\ saida' = "Vertice inicial invalido para Prim."
         /\ custoTotal' = 0
         /\ UNCHANGED <<numVertices, numArestas, direcionado, ponderado, listaAdjacencia>>
         /\ UNCHANGED <<vertices, parent, rank, ancestral, altura>>
    ELSE Entra("algoritmoPrim",
               [chave |-> [v \in Vertices |->
                              IF v = verticeInicialPrim THEN 0 ELSE INFINITO],
                naArvore |-> [v \in Vertices |-> FALSE],
                pai |-> [v \in Vertices |-> -1],
                i |-> 0])

PrimContinua(st) ==
    /\ st.i < numVertices - 1
    /\ MenorNaoVisitado(st.chave, st.naArvore, 0, -1, INFINITO) # -1

\* one iteration of the growth loop
PrimPasso ==
    /\ Executando("algoritmoPrim")
    /\ PrimContinua(execucao.st)
    /\ LET st == execucao.st
           u == MenorNaoVisitado(st.chave, st.naArvore, 0, -1, INFINITO)
           relaxado == PrimRelaxa(listaAdjacencia, u, 1,
                                  [st EXCEPT !.naArvore[u] = TRUE])
       IN  Interno([relaxado EXCEPT !.i = @ + 1])

\* the growth loop is over: the edges are listed and the cost is summed
PrimTermina ==
    /\ Executando("algoritmoPrim")
    /\ ~PrimContinua(execucao.st)
    /\ Retorna("algoritmoPrim", "Custo total da MST",
               CustoCalculadoPrim(listaAdjacencia, execucao.st.pai, 0))

IniciaApagaReverso ==
    Entra("algoritmoApagaReverso",
          [arestas |-> OrdenaArestas(ColetaArestas(listaAdjacencia, 0), FALSE),
           i |-> 1,
           fase |-> "remove",
           visitado |-> {},
           pilha |-> <<>>])

\* a step of algoritmoApagaReverso that assigns to the graph and to locals
PassoNoGrafo(g, st) ==
    /\ listaAdjacencia' = g.listaAdjacencia
    /\ numArestas' = g.numArestas
    /\ execucao' = [execucao EXCEPT !.st = st]
    /\ UNCHANGED <<numVertices, direcionado, ponderado>>
    /\ UNCHANGED <<chamada, retorno, saida, custoTotal>>
    /\ UNCHANGED <<vertices, parent, rank, ancestral, altura>>

\* the removal of edge i; when it succeeds estaConectadoDFS is entered and
\* calls dfsUtil(0, visitado)
ApagaRemove ==
    /\ Executando("algoritmoApagaReverso")
    /\ execucao.st.fase = "remove"
    /\ execucao.st.i <= Len(execucao.st.arestas)
    /\ LET st == execucao.st
           aresta == st.arestas[st.i]
           removida == RemoveArestaOp(Estado, aresta.verticeOrigem,
                                      aresta.verticeDestino, TRUE)
       IN  IF removida.retorno = "true"
           THEN IF numVertices = 0
                THEN PassoNoGrafo(removida.g, [st EXCEPT !.i = @ + 1])
                ELSE PassoNoGrafo(removida.g,
                         [st EXCEPT !.fase = "dfs",
                                    !.visitado = {0},
                                    !.pilha = <<[v |-> 0, atual |-> 1]>>])
           ELSE PassoNoGrafo(removida.g, [st EXCEPT !.i = @ + 1])

\* a step of dfsUtil in the activation on top of the stack: return at the
\* end of the list, otherwise look at the entry under the cursor, advance,
\* and call dfsUtil on its vertex when it is not visited
DfsPasso ==
    /\ Executando("algoritmoApagaReverso")
    /\ execucao.st.fase = "dfs"
    /\ execucao.st.pilha # <<>>
    /\ LET st == execucao.st
           n == Len(st.pilha)
           topo == st.pilha[n]
       IN  IF topo.atual > Len(listaAdjacencia[topo.v])
           THEN Interno([st EXCEPT !.pilha = SubSeq(st.pilha, 1, n - 1)])
           ELSE LET w == listaAdjacencia[topo.v][topo.atual].verticeAdjacente
                    avancada == [st.pilha EXCEPT ![n].atual = @ + 1]
                IN  IF w \notin st.visitado
                    THEN Interno([st EXCEPT !.visitado = @ \cup {w},
                                            !.pilha = Append(avancada,
                                                             [v |-> w, atual |-> 1])])
                    ELSE Interno([st EXCEPT !.pilha = avancada])

\* the for loop of estaConectadoDFS over the vertices, after dfsUtil
VerificaVisitados(lista, visitado) ==
    \A i \in Vertices :
        i \notin visitado =>
            /\ lista[i] = <<>>
            /\ numVertices > 1
            /\ \E j \in Vertices :
                  /\ i # j
                  /\ \/ ArestaExiste(lista, i, j)
                     \/ ArestaExiste(lista, j, i)

\* dfsUtil has returned: estaConectadoDFS answers, and the edge is put back
\* when the answer is false
ApagaDecide ==
    /\ Executando("algoritmoApagaReverso")
    /\ execucao.st.fase = "dfs"
    /\ execucao.st.pilha = <<>>
    /\ LET st == execucao.st
           aresta == st.arestas[st.i]
           reposta == AdicionaArestaOp(Estado, aresta.verticeOrigem,
                                       aresta.verticeDestino, aresta.peso)
           seguinte == [st EXCEPT !.i = @ + 1, !.fase = "remove"]
       IN  IF ~VerificaVisitados(listaAdjacencia, st.visitado)
           THEN PassoNoGrafo(reposta.g, seguinte)
           ELSE PassoNoGrafo(Estado, seguinte)

ApagaTermina ==
    /\ Executando("algoritmoApagaReverso")
    /\ execucao.st.fase = "remove"
    /\ execucao.st.i > Len(execucao.st.arestas)
    /\ Retorna("algoritmoApagaReverso", "Custo total da MST (Apaga Reverso)",
               CustoRestante(listaAdjacencia))

\* the steps of a running algorithm
Passo ==
    \/ BfsRetira
    \/ BfsExamina
    \/ BfsTermina
    \/ DijkstraPasso
    \/ DijkstraTermina
    \/ FloydPasso
    \/ FloydTermina
    \/ KruskalPasso
    \/ KruskalTermina
    \/ PrimPasso
    \/ PrimTermina
    \/ ApagaRemove
    \/ DfsPasso
    \/ ApagaDecide
    \/ ApagaTermina

\* a graph filled with the insertion of its kind, then one algorithm called
\* on it and followed to its end
NextPassos ==
    \/ \E o \in Vertices, d \in Vertices, p \in Pesos :
          /\ execucao = Ocioso
          /\ numArestas < numVertices
          /\ ~direcionado
          /\ AdicionaAresta(o, d, p)
    \/ \E o \in Vertices, d \in Vertices, p \in Pesos :
          /\ execucao = Ocioso
          /\ numArestas < ArestasExemplo
          /\ direcionado
          /\ AdicionaArestaDirecionada(o, d, p)
    \/ \E s \in Vertices : IniciaBFS(s)
    \/ \E s \in Vertices : IniciaDijkstra(s)
    \/ IniciaFloyd
    \/ IniciaKruskal
    \/ IniciaPrim
    \/ IniciaApagaReverso
    \/ Passo

SpecPassos == Init /\ [][NextPassos]_vars

\* a called algorithm keeps running: the program has a single thread
SpecPassosJusto == SpecPassos /\ WF_vars(Passo)

(***************************************************************************)
(* State machine of a DisjointSet used after its initialisation: either    *)
(* the label-keyed one, makeSet called once for every label (as kruskal    *)
(* does), or the index-keyed DisjointSet(MaxElementos); then the calls     *)
(* that find representatives and unite sets.                               *)
(***************************************************************************)
RotulosDoConjunto == 1 .. MaxElementos

Elementos == 0 .. (MaxElementos - 1)

InitInicializados ==
    /\ vertices = <<>>
    /\ direcionado = FALSE
    /\ chamada = "constructor"
    /\ retorno = "undefined"
    /\ saida = ""
    /\ custoTotal = 0
    /\ numVertices = 0
    /\ numArestas = 0
    /\ ponderado = TRUE
    /\ listaAdjacencia = <<>>
    /\ execucao = Ocioso
    /\ \/ /\ parent = [x \in RotulosDoConjunto |-> x]
          /\ rank = [x \in RotulosDoConjunto |-> 0]
          /\ ancestral = <<>>
          /\ altura = <<>>
       \/ /\ parent = <<>>
          /\ rank = <<>>
          /\ ancestral = DisjointSet(MaxElementos).ancestral
          /\ altura = DisjointSet(MaxElementos).altura

\* the index-keyed DisjointSet object
ObjetoDisjointSet == [ancestral |-> ancestral, altura |-> altura]

\* a call on the index-keyed DisjointSet: the arrays it leaves and the value
\* returned
EfeitoDisjointSet(nome, ds, valor) ==
    /\ ancestral' = ds.ancestral
    /\ altura' = ds.altura
    /\ chamada' = nome
    /\ retorno' = valor
    /\ UNCHANGED <<numVertices, numArestas, direcionado, ponderado, listaAdjacencia>>
    /\ UNCHANGED <<saida, custoTotal, vertices, execucao, parent, rank>>

ChamadaEncontrarRepresentante(elemento) ==
    /\ elemento \in DOMAIN ancestral
    /\ LET r == EncontrarRepresentante(ObjetoDisjointSet, elemento)
       IN  EfeitoDisjointSet("encontrarRepresentante", r.ds, r.raiz)

ChamadaUnirConjuntos(elementoA, elementoB) ==
    /\ elementoA \in DOMAIN ancestral
    /\ elementoB \in DOMAIN ancestral
    /\ EfeitoDisjointSet("unirConjuntos",
                         UnirConjuntos(ObjetoDisjointSet, elementoA, elementoB),
                         "undefined")

NextInicializados ==
    \/ \E x \in RotulosDoConjunto : ChamadaFind(x)
    \/ \E x \in RotulosDoConjunto, y \in RotulosDoConjunto : ChamadaUnion(x, y)
    \/ \E elemento \in Elementos : ChamadaEncontrarRepresentante(elemento)
    \/ \E elementoA \in Elementos, elementoB \in Elementos :
          ChamadaUnirConjuntos(elementoA, elementoB)

SpecInicializados == InitInicializados /\ [][NextInicializados]_vars

(***************************************************************************)
(* A directed weighted Grafo whose edges may carry negative weights,       *)
(* handed to algoritmoFloyd.                                               *)
(***************************************************************************)
\* weights of either sign, and one as large as the value the code reads as
\* "no path"
PesosComSinal == {-1, 1, INFINITO}

InitComSinal ==
    /\ Construtor(MaxVertices)
    /\ SemRotulos
    /\ direcionado
    /\ ponderado

NextComSinal ==
    \/ \E o \in Vertices, d \in Vertices, p \in PesosComSinal :
          numArestas < ArestasExemplo /\ AdicionaAresta(o, d, p)
    \/ \E o \in Vertices, d \in Vertices, p \in PesosComSinal :
          numArestas < ArestasExemplo /\ AdicionaArestaDirecionada(o, d, p)
    \/ \E o \in Vertices, d \in Vertices : RemoveAresta(o, d)
    \/ ChamadaAlgoritmoFloyd

SpecComSinal == InitComSinal /\ [][NextComSinal]_vars

(***************************************************************************)
(* Vocabulary of the properties.                                           *)
(***************************************************************************)
TemEntrada(lista, u, v, w) ==
    \E k \in DOMAIN lista[u] : lista[u][k] = ElemLista(v, w)

\* every adjacency entry has its mirror entry with the same weight
Simetrico(lista) ==
    \A u \in Vertices : \A k \in DOMAIN lista[u] :
        TemEntrada(lista, lista[u][k].verticeAdjacente, u, lista[u][k].peso)

NumEntradas(lista) ==
    Cardinality({x \in Vertices \X (1 .. 2 * numVertices) :
                    x[2] \in DOMAIN lista[x[1]]})

ParesLigados(lista) ==
    {par \in SUBSET Vertices :
        /\ Cardinality(par) = 2
        /\ \E u \in par, v \in par :
              /\ u # v
              /\ \E k \in DOMAIN lista[u] : lista[u][k].verticeAdjacente = v}

RECURSIVE Alcanca(_, _)
\* vertices reachable from the set s along adjacency entries
Alcanca(lista, s) ==
    LET t == s \cup {lista[u][k].verticeAdjacente :
                        <<u, k>> \in {x \in s \X (1 .. numVertices) :
                                         x[2] \in DOMAIN lista[x[1]]}}
    IN  IF t = s THEN s ELSE Alcanca(lista, t)

Conexo(lista) == numVertices >= 2 /\ Alcanca(lista, {0}) = Vertices

RECURSIVE SomaConjunto(_)
SomaConjunto(arestas) ==
    IF arestas = {}
    THEN 0
    ELSE LET a == CHOOSE x \in arestas : TRUE
         IN  a.peso + SomaConjunto(arestas \ {a})

RECURSIVE Fecho(_, _)
\* vertices joined to the set s by the undirected edges of the set arestas
Fecho(arestas, s) ==
    LET t == s \cup {a.verticeDestino : a \in {x \in arestas : x.verticeOrigem \in s}}
               \cup {a.verticeOrigem : a \in {x \in arestas : x.verticeDestino \in s}}
    IN  IF t = s THEN s ELSE Fecho(arestas, t)

Range(seq) == {seq[k] : k \in DOMAIN seq}

\* the spanning trees of an undirected graph, as sets of its edges
ArvoresGeradoras(lista) ==
    {t \in SUBSET Range(ColetaArestas(lista, 0)) :
        /\ Cardinality(t) = numVertices - 1
        /\ Fecho(t, {0}) = Vertices}

PesoMinimoGerador(lista) ==
    LET custos == {SomaConjunto(t) : t \in ArvoresGeradoras(lista)}
    IN  CHOOSE c \in custos : \A outro \in custos : c <= outro

EntradaForaDoContrato(o, d) ==
    o \notin 0 .. (numVertices - 1) \/ d \notin 0 .. (numVertices - 1) \/ o = d

\* vertices joined to a vertex of the set s by one adjacency entry
Vizinhos(lista, s) ==
    {lista[x[1]][x[2]].verticeAdjacente :
        x \in {y \in s \X (1 .. numVertices) : y[2] \in DOMAIN lista[y[1]]}}

RECURSIVE Saltos(_, _, _, _, _)
\* least number of adjacency entries on a path to v from the layer camada,
\* which lies k entries from the source; -1 when there is no path
Saltos(lista, camada, vistos, v, k) ==
    IF v \in camada
    THEN k
    ELSE LET nova == Vizinhos(lista, camada) \ vistos
         IN  IF nova = {}
             THEN -1
             ELSE Saltos(lista, nova, vistos \cup nova, v, k + 1)

\* the least of a non-empty set of integers
Minimo(conjunto) == CHOOSE c \in conjunto : \A outro \in conjunto : c <= outro

RECURSIVE CustosAte(_, _, _, _)
\* the total weights of the paths from s to v made of at most k entries
CustosAte(lista, s, v, k) ==
    (IF v = s THEN {0} ELSE {})
    \cup (IF k = 0
          THEN {}
          ELSE UNION {{c + lista[x[1]][x[2]].peso :
                          c \in CustosAte(lista, s, x[1], k - 1)} :
                      x \in {y \in Vertices \X (1 .. numVertices) :
                                /\ y[2] \in DOMAIN lista[y[1]]
                                /\ lista[y[1]][y[2]].verticeAdjacente = v}})

\* every list strictly ascending by adjacent vertex, within range, no self entry
Ordenado(lista) ==
    \A u \in Vertices :
        /\ \A k \in DOMAIN lista[u] :
              /\ lista[u][k].verticeAdjacente \in Vertices
              /\ lista[u][k].verticeAdjacente # u
        /\ \A k \in 1 .. (Len(lista[u]) - 1) :
              lista[u][k].verticeAdjacente < lista[u][k + 1].verticeAdjacente

\* the connected components, as sets of vertices
Componentes(lista) == {Alcanca(lista, {v}) : v \in Vertices}

\* a symmetric graph has no cycle when it has as many edges as a forest
\* with its components
SemCiclo(lista) ==
    Cardinality(ParesLigados(lista))
        = numVertices - Cardinality(Componentes(lista))

\* the undirected edges of a symmetric graph, each named from its lower
\* endpoint
ArestasDoGrafo(lista) ==
    {Aresta(x[1], lista[x[1]][x[2]].verticeAdjacente, lista[x[1]][x[2]].peso) :
        x \in {y \in Vertices \X (1 .. numVertices) :
                  /\ y[2] \in DOMAIN lista[y[1]]
                  /\ y[1] < lista[y[1]][y[2]].verticeAdjacente}}

\* the edge set t connects two vertices exactly when the graph does
MesmaLigacao(lista, t) ==
    \A v \in Vertices : Fecho(t, {v}) = Alcanca(lista, {v})

\* the vertex-to-itself records of one array, taken in pairs
ArestasProprias(origem, adjacentes) ==
    LET proprias == SelectSeq(adjacentes, LAMBDA e : e.destino = origem)
    IN  [k \in 1 .. (Len(proprias) \div 2) |->
            [origem |-> origem, destino |-> origem, peso |-> proprias[2 * k].peso]]

RECURSIVE ArestasInseridas(_, _)
\* one record per adicionarAresta call that built the undirected graph:
\* each edge between two vertices from its lower endpoint, each edge from a
\* vertex to itself once
ArestasInseridas(mapa, k) ==
    IF k > Len(mapa)
    THEN <<>>
    ELSE ColetaAdjacentes(mapa[k].chave,
                          SelectSeq(mapa[k].valor,
                                    LAMBDA e : e.destino # mapa[k].chave), 1)
         \o ArestasProprias(mapa[k].chave, mapa[k].valor)
         \o ArestasInseridas(mapa, k + 1)

RECURSIVE Reconstroi(_, _, _, _, _)
\* the Map built by adicionarAresta calls for the edges of lista taken in
\* the order ordem, edge k with its endpoints swapped when troca[k]
Reconstroi(lista, ordem, troca, k, mapa) ==
    IF k > Len(lista)
    THEN mapa
    ELSE LET a == lista[ordem[k]]
         IN  IF troca[k]
             THEN Reconstroi(lista, ordem, troca, k + 1,
                             AdicionarArestaOp(mapa, a.destino, a.origem, a.peso))
             ELSE Reconstroi(lista, ordem, troca, k + 1,
                             AdicionarArestaOp(mapa, a.origem, a.destino, a.peso))

Permutacoes(n) ==
    {f \in [1 .. n -> 1 .. n] : \A i \in 1 .. n, j \in 1 .. n : f[i] = f[j] => i = j}

\* the graphs that hold the edges of mapa, built in every order
OutrasConstrucoes(mapa) ==
    LET lista == ArestasInseridas(mapa, 1)
    IN  {Reconstroi(lista, ordem, troca, 1, <<>>) :
            ordem \in Permutacoes(Len(lista)),
            troca \in [1 .. Len(lista) -> BOOLEAN]}

\* same number of edges and same total weight
MesmoResultado(a, b) == Len(a) = Len(b) /\ PesoTotal(a) = PesoTotal(b)

RECURSIVE AlcancaRotulos(_, _)
\* labels reachable from the set s along the adjacency records
AlcancaRotulos(mapa, s) ==
    LET t == s \cup {Obtem(mapa, x[1])[x[2]].destino :
                        x \in {y \in s \X (1 .. 2 * ArestasExemplo) :
                                  y[2] \in DOMAIN Obtem(mapa, y[1])}}
    IN  IF t = s THEN s ELSE AlcancaRotulos(mapa, t)

ConexoRotulos(mapa) ==
    /\ Len(mapa) >= 1
    /\ AlcancaRotulos(mapa, {mapa[1].chave}) = Range(Chaves(mapa))

\* the labels the Map holds
RotulosDoGrafo(mapa) == {mapa[k].chave : k \in DOMAIN mapa}

\* the adjacency records of the Map, as <<entry, index>> pairs
Registros(mapa) ==
    {x \in (DOMAIN mapa) \X (1 .. 2 * ArestasExemplo) :
        x[2] \in DOMAIN mapa[x[1]].valor}

RECURSIVE CustosRotulos(_, _, _, _)
\* the total weights of the paths from s to v made of at most k records
CustosRotulos(mapa, s, v, k) ==
    (IF v = s THEN {0} ELSE {})
    \cup (IF k = 0
          THEN {}
          ELSE UNION {{c + mapa[x[1]].valor[x[2]].peso :
                          c \in CustosRotulos(mapa, s, mapa[x[1]].chave, k - 1)} :
                      x \in {y \in Registros(mapa) :
                                mapa[y[1]].valor[y[2]].destino = v}})

RECURSIVE SomasDoCaminho(_, _, _)
\* the total weights the first k vertices of caminho can have, one stored
\* record taken between each vertex and the next; empty when some step has
\* no stored record
SomasDoCaminho(mapa, caminho, k) ==
    IF k = 1
    THEN {0}
    ELSE {c + e.peso :
            c \in SomasDoCaminho(mapa, caminho, k - 1),
            e \in {r \in Range(ObtemOuVazio(mapa, caminho[k - 1])) :
                      r.destino = caminho[k]}}

RECURSIVE RaizDe(_, _, _)
\* the element reached from x by following at most k links of p
RaizDe(p, x, k) ==
    IF p[x] = x \/ k = 0 THEN x ELSE RaizDe(p, p[x], k - 1)

Representante(p, x) == RaizDe(p, x, Cardinality(DOMAIN p))

ClasseDe(p, x) == {y \in DOMAIN p : Representante(p, y) = Representante(p, x)}

ParticaoDe(p) == {ClasseDe(p, x) : x \in DOMAIN p}

\* elements that share a representative in p still share one in q
NuncaSepara(p, q) ==
    \A a \in DOMAIN p, b \in DOMAIN p :
        Representante(p, a) = Representante(p, b)
            => Representante(q, a) = Representante(q, b)

\* q is p with exactly the sets of x and y merged
UneExatamente(p, q, x, y) ==
    /\ ParticaoDe(q) = (ParticaoDe(p) \ {ClasseDe(p, x), ClasseDe(p, y)})
                           \cup {ClasseDe(p, x) \cup ClasseDe(p, y)}
    /\ Cardinality(ParticaoDe(q)) = Cardinality(ParticaoDe(p)) - 1

RECURSIVE ProfundidadeDe(_, _, _)
\* number of links from x up to its root, at most k
ProfundidadeDe(p, x, k) ==
    IF p[x] = x \/ k = 0 THEN 0 ELSE 1 + ProfundidadeDe(p, p[x], k - 1)

RECURSIVE NoCaminho(_, _, _)
\* the elements on the path from x to its root
NoCaminho(p, x, k) ==
    IF p[x] = x \/ k = 0 THEN {x} ELSE {x} \cup NoCaminho(p, p[x], k - 1)

TemPesoNegativo(lista) ==
    \E u \in Vertices : \E k \in DOMAIN lista[u] : lista[u][k].peso < 0

\* some walk from a vertex back to itself has a negative total weight
TemCicloNegativo(lista) ==
    \E v \in Vertices : \E c \in CustosAte(lista, v, v, numVertices) : c < 0

RECURSIVE AteKRegistros(_, _, _)
\* the labels reached from the set s along at most k adjacency records
AteKRegistros(mapa, s, k) ==
    IF k = 0
    THEN s
    ELSE LET a == AteKRegistros(mapa, s, k - 1)
         IN  a \cup {r.destino : r \in UNION {Range(ObtemOuVazio(mapa, x)) : x \in a}}

\* the least number of records of a path from origem to destino
MenosArestas(mapa, origem, destino) ==
    Minimo({k \in 0 .. Len(mapa) : destino \in AteKRegistros(mapa, {origem}, k)})

\* caminho goes from origem to destino, a stored record joining each of its
\* labels to the next
CaminhoValido(mapa, caminho, origem, destino) ==
    /\ Len(caminho) >= 1
    /\ caminho[1] = origem
    /\ caminho[Len(caminho)] = destino
    /\ \A i \in 1 .. (Len(caminho) - 1) :
          \E r \in Range(ObtemOuVazio(mapa, caminho[i])) : r.destino = caminho[i + 1]

(***************************************************************************)
(* Claims.                                                                 *)
(***************************************************************************)

\* C1: in a graph created undirected, after any sequence of adicionaAresta
\* and removeAresta calls, arestaExiste(u,v) = arestaExiste(v,u) for every
\* pair of distinct vertices in range.
C1_ArestaExisteSimetrica ==
    ~direcionado =>
        \A u \in Vertices, v \in Vertices :
            u # v => (ArestaExiste(listaAdjacencia, u, v)
                        <=> ArestaExiste(listaAdjacencia, v, u))

\* an undirected graph that still holds an edge after a successful removal
C1_Witness ==
    /\ ~direcionado
    /\ chamada = "removeAresta"
    /\ retorno = "true"
    /\ numArestas >= 1
    /\ \E u \in Vertices : listaAdjacencia[u] # <<>>

\* C2: on a connected, undirected, weighted graph built with adicionaAresta,
\* the cost Kruskal reports, the cost Prim reports (from start vertex 1) and
\* the cost of the edges Reverse-Delete leaves are equal, and equal to the
\* weight of a minimum spanning tree.
C2_MesmoCustoMST ==
    (~direcionado /\ ponderado /\ Conexo(listaAdjacencia)) =>
        LET kruskal == AlgoritmoKruskal(listaAdjacencia).custoTotal
            prim == AlgoritmoPrim(listaAdjacencia).custoTotal
            apaga == AlgoritmoApagaReversoOp(Estado).custoTotal
        IN  /\ kruskal = prim
            /\ prim = apaga
            /\ apaga = PesoMinimoGerador(listaAdjacencia)

\* C3: with non-negative integer weights, for every pair (s, v) the distance
\* algoritmoDijkstra(s) gives v equals entry [s][v] of algoritmoFloyd's
\* matrix.
C3_DijkstraIgualFloyd ==
    LET dist == AlgoritmoFloyd(listaAdjacencia)
    IN  \A s \in Vertices :
            LET distancias == AlgoritmoDijkstra(listaAdjacencia, s)
            IN  \A v \in Vertices : distancias[v] = dist[s][v]

\* the graph criarGrafoExemplo builds when main is answered "undirected,
\* weighted": 1-2 (3), 1-3 (1), 3-2 (5) on 4 vertices
GrafoExemplo ==
    /\ numVertices = 4
    /\ ~direcionado
    /\ ponderado
    /\ numArestas = 3
    /\ listaAdjacencia =
         [i \in 0 .. 3 |->
            CASE i = 0 -> <<>>
              [] i = 1 -> <<ElemLista(2, 3), ElemLista(3, 1)>>
              [] i = 2 -> <<ElemLista(1, 3), ElemLista(3, 5)>>
              [] i = 3 -> <<ElemLista(1, 1), ElemLista(2, 5)>>]

\* C4: on the example graph Kruskal and Prim both yield the edge set
\* {(1,3,1),(1,2,3)} with total 4, and Reverse-Delete removes edge 3-2
\* (weight 5) first, leaves it removed and ends with total weight 4.
C4_ExemploCusto4 ==
    GrafoExemplo =>
        LET kruskal == AlgoritmoKruskal(listaAdjacencia)
            prim == AlgoritmoPrim(listaAdjacencia)
            apaga == AlgoritmoApagaReversoOp(Estado)
        IN  /\ Range(kruskal.arvoreGeradoraMinima) = {Aresta(1, 3, 1), Aresta(1, 2, 3)}
            /\ kruskal.custoTotal = 4
            /\ Range(prim.arestas) = {Aresta(1, 3, 1), Aresta(1, 2, 3)}
            /\ prim.custoTotal = 4
            /\ apaga.arestas[1] = Aresta(2, 3, 5)
            /\ ~ArestaExiste(apaga.g.listaAdjacencia, 3, 2)
            /\ ~ArestaExiste(apaga.g.listaAdjacencia, 2, 3)
            /\ apaga.custoTotal = 4

\* C5 as stated: in every state of an undirected graph reachable by
\* adicionaAresta, adicionaArestaDirecionada and removeAresta, u has an
\* entry to v with weight w iff v has an entry to u with weight w.
C5_SimetriaSempre ==
    ~direcionado => Simetrico(listaAdjacencia)

\* C5 amended: an undirected graph starts symmetric, and every adicionaAresta
\* and removeAresta call made on a symmetric graph leaves it symmetric, the
\* mirror entry carrying the same weight.
C5_SimetriaPreservada ==
    [][(/\ ~direcionado
        /\ Simetrico(listaAdjacencia)
        /\ chamada' \in {"adicionaAresta", "removeAresta"})
          => Simetrico(listaAdjacencia')]_vars

\* an unweighted undirected graph on which adicionaAresta has just stored
\* an edge next to another one
C5_Witness ==
    /\ ~direcionado
    /\ ~ponderado
    /\ chamada = "adicionaAresta"
    /\ saida = ""
    /\ Simetrico(listaAdjacencia)
    /\ numArestas = 2
    /\ Cardinality(ParesLigados(listaAdjacencia)) = 2

\* C6: numArestas is the number of logically distinct edges: the number of
\* adjacency entries of a directed graph, the number of unordered pairs
\* joined by at least one entry of an undirected graph.
C6_NumArestasContaArestas ==
    numArestas = IF direcionado
                 THEN NumEntradas(listaAdjacencia)
                 ELSE Cardinality(ParesLigados(listaAdjacencia))

\* C7: every adjacency list is strictly ascending by adjacent vertex, holds
\* only vertices in range and never the vertex itself.
C7_ListasOrdenadas ==
    \A u \in Vertices :
        LET l == listaAdjacencia[u]
        IN  /\ \A k \in DOMAIN l :
                  /\ l[k].verticeAdjacente \in Vertices
                  /\ l[k].verticeAdjacente # u
            /\ \A k \in 1 .. (Len(l) - 1) :
                  l[k].verticeAdjacente < l[k + 1].verticeAdjacente

\* a list of two or more entries in a graph Reverse-Delete has gone through
C7_Witness ==
    /\ chamada = "algoritmoApagaReverso"
    /\ \E u \in Vertices : Len(listaAdjacencia[u]) >= 2

\* C8: from any reachable graph and for any arguments, adicionaAresta(u,v,w)
\* called twice leaves the adjacency lists and numArestas that calling it
\* once leaves.
C8_AdicionaArestaIdempotente ==
    \A o \in Args, d \in Args, p \in Pesos :
        LET uma == AdicionaArestaOp(Estado, o, d, p).g
            duas == AdicionaArestaOp(uma, o, d, p).g
        IN  duas = uma

\* adicionaAresta has just run on valid arguments and the graph holds edges,
\* so the same call made again meets the edge it stored
C8_Witness ==
    /\ chamada = "adicionaAresta"
    /\ saida = ""
    /\ numArestas >= 1
    /\ \E u \in Vertices, v \in Vertices :
          u # v /\ ArestaExiste(listaAdjacencia, u, v)

\* C9: a call of adicionaAresta, adicionaArestaDirecionada or removeAresta
\* with a vertex out of range or with source = destination leaves every
\* adjacency list and numArestas as they were.
C9_ChamadaInvalidaSemEfeito ==
    \A o \in Args, d \in Args :
        EntradaForaDoContrato(o, d) =>
            /\ RemoveArestaOp(Estado, o, d, FALSE).g = Estado
            /\ \A p \in Pesos :
                  /\ AdicionaArestaOp(Estado, o, d, p).g = Estado
                  /\ AdicionaArestaDirecionadaOp(Estado, o, d, p).g = Estado

\* a graph that holds edges right after a rejected insertion
C9_Witness ==
    /\ saida = "Entrada invalida"
    /\ chamada \in {"adicionaAresta", "adicionaArestaDirecionada"}
    /\ numArestas >= 1
    /\ \E u \in Vertices : listaAdjacencia[u] # <<>>

\* C10: adicionaAresta and adicionaArestaDirecionada return a boolean: true
\* exactly when the call inserted a new edge, false otherwise.
C10_RetornoBooleano ==
    [][chamada' \in {"adicionaAresta", "adicionaArestaDirecionada"}
          => retorno' = IF listaAdjacencia' # listaAdjacencia
                        THEN "true" ELSE "false"]_vars

\* C11: removeAresta(u,v) returns true exactly when an adjacency entry u->v
\* was present; when it returns true numArestas drops by exactly 1 and
\* afterwards arestaExiste(u,v) is false and, on an undirected graph,
\* arestaExiste(v,u) is false too; when it returns false the adjacency lists
\* and numArestas are unchanged.
C11_RemoveAresta ==
    \A u \in Args, v \in Args :
        LET r == RemoveArestaOp(Estado, u, v, FALSE)
            presente == /\ u \in Vertices
                        /\ \E k \in DOMAIN listaAdjacencia[u] :
                              listaAdjacencia[u][k].verticeAdjacente = v
        IN  /\ (r.retorno = "true") <=> presente
            /\ r.retorno \in {"true", "false"}
            /\ r.retorno = "true" =>
                  /\ r.g.numArestas = numArestas - 1
                  /\ ~ArestaExiste(r.g.listaAdjacencia, u, v)
                  /\ ~direcionado => ~ArestaExiste(r.g.listaAdjacencia, v, u)
            /\ r.retorno = "false" => r.g = Estado

\* removeAresta has just removed an edge of an undirected graph and another
\* edge is still stored in both directions
C11_Witness ==
    /\ chamada = "removeAresta"
    /\ retorno = "true"
    /\ ~direcionado
    /\ Simetrico(listaAdjacencia)
    /\ NumEntradas(listaAdjacencia) = 2

\* C12: for every source s in range, algoritmoBFS(s) gives distance 0 to s,
\* to every vertex reachable from s the least number of edges on a path from
\* s (at most numVertices - 1), and 999999 to every vertex not reachable.
C12_BFSDistancias ==
    \A s \in Vertices :
        LET distancias == AlgoritmoBFS(listaAdjacencia, s)
        IN  /\ distancias[s] = 0
            /\ \A v \in Vertices :
                  LET saltos == Saltos(listaAdjacencia, {s}, {s}, v, 0)
                  IN  IF saltos = -1
                      THEN distancias[v] = 999999
                      ELSE /\ distancias[v] = saltos
                           /\ distancias[v] <= numVertices - 1

\* algoritmoBFS has run on a graph where some vertex lies two edges from
\* another and some vertex cannot be reached from another
C12_Witness ==
    /\ chamada = "algoritmoBFS"
    /\ \E s \in Vertices, v \in Vertices :
          Saltos(listaAdjacencia, {s}, {s}, v, 0) = 2
    /\ \E s \in Vertices, v \in Vertices :
          Saltos(listaAdjacencia, {s}, {s}, v, 0) = -1

\* C13: whatever non-negative integer weights the edges carry, after
\* algoritmoDijkstra(s) the entry of v is the sentinel 999999 exactly when v
\* is not reachable from s, and every reachable v has its least path weight.
C13_DijkstraSentinela ==
    \A s \in Vertices :
        LET distancias == AlgoritmoDijkstra(listaAdjacencia, s)
        IN  \A v \in Vertices :
                LET custos == CustosAte(listaAdjacencia, s, v, numVertices - 1)
                IN  /\ (distancias[v] = 999999) <=> (custos = {})
                    /\ custos # {} => distancias[v] = Minimo(custos)

\* C14: run on a connected undirected weighted graph built with
\* adicionaAresta, algoritmoApagaReverso leaves a graph that is connected and
\* spanning, is a tree (numVertices - 1 undirected edges), is symmetric and
\* sorted, and has numArestas = numVertices - 1.
C14_ApagaReversoDeixaArvore ==
    (~direcionado /\ ponderado /\ Conexo(listaAdjacencia)) =>
        LET final == AlgoritmoApagaReversoOp(Estado).g
        IN  /\ Conexo(final.listaAdjacencia)
            /\ Cardinality(ParesLigados(final.listaAdjacencia)) = numVertices - 1
            /\ NumEntradas(final.listaAdjacencia) = 2 * (numVertices - 1)
            /\ Simetrico(final.listaAdjacencia)
            /\ Ordenado(final.listaAdjacencia)
            /\ final.numArestas = numVertices - 1

\* a connected undirected weighted graph that holds a cycle, so that
\* Reverse-Delete has an edge to drop
C14_Witness ==
    /\ ~direcionado
    /\ ponderado
    /\ Conexo(listaAdjacencia)
    /\ Cardinality(ParesLigados(listaAdjacencia)) = numVertices
    /\ numArestas = numVertices

\* C15: run on a disconnected undirected graph, Reverse-Delete ends with a
\* spanning forest: the remaining edges hold no cycle, and two vertices are
\* connected by them exactly when the input graph connected them.
C15_ApagaReversoDeixaFloresta ==
    (~direcionado /\ Cardinality(Componentes(listaAdjacencia)) > 1) =>
        LET final == AlgoritmoApagaReversoOp(Estado).g
        IN  /\ SemCiclo(final.listaAdjacencia)
            /\ Componentes(final.listaAdjacencia) = Componentes(listaAdjacencia)

C18_IndependeDaOrdem ==
    \A outro \in OutrasConstrucoes(vertices) :
        /\ MesmoResultado(Kruskal(vertices), Kruskal(outro))
        /\ MesmoResultado(ApagaReservo(vertices), ApagaReservo(outro))
        /\ \A inicial \in Range(Chaves(vertices)) \cup {SemArgumento} :
              MesmoResultado(Prim(vertices, inicial), Prim(outro, inicial))

\* C19: on a connected undirected weighted label-keyed graph built with
\* adicionarAresta, the lists returned by kruskal(), by prim(inicial) for
\* every vertex inicial of the graph and by apagaReservo() each have
\* (number of vertices - 1) edges, and all have the same total weight.
C19_MesmaArvoreRotulos ==
    ConexoRotulos(vertices) =>
        LET kruskal == Kruskal(vertices)
            apaga == ApagaReservo(vertices)
        IN  /\ Len(kruskal) = Len(vertices) - 1
            /\ Len(apaga) = Len(vertices) - 1
            /\ PesoTotal(apaga) = PesoTotal(kruskal)
            /\ \A inicial \in Range(Chaves(vertices)) :
                  LET prim == Prim(vertices, inicial)
                  IN  /\ Len(prim) = Len(vertices) - 1
                      /\ PesoTotal(prim) = PesoTotal(kruskal)

\* apagaReservo has run on a connected graph of three vertices joined by
\* three edges of different weights, one of which it dropped
C19_Witness ==
    /\ chamada = "apagaReservo"
    /\ ConexoRotulos(vertices)
    /\ Len(vertices) = 3
    /\ Len(ColetaVertices(vertices, 1)) = 3
    /\ \A k \in DOMAIN vertices : Len(vertices[k].valor) = 2
    /\ \E k \in DOMAIN vertices :
          vertices[k].valor[1].peso # vertices[k].valor[2].peso
    /\ custoTotal = 4

\* C20: in the label-keyed DisjointSet, makeSet(x) on an element x it
\* already holds changes nothing: the parent and the rank of every element
\* are the same after the call as before.
C20_MakeSetRepetidoSemEfeito ==
    \A x \in DOMAIN parent :
        MakeSet(Conjuntos(parent, rank), x) = Conjuntos(parent, rank)

\* C21: on a graph with non-negative weights, the label-keyed Dijkstra
\* (menorCaminhoDirecionadoPonderado on a directed graph,
\* menorCaminhoNaoDirecionadoPonderado on an undirected one) returns
\* caminho = null exactly when no path leads from origem to destino;
\* otherwise caminho starts at origem, ends at destino, follows stored
\* records, and its weights sum to the returned distancia, the least total
\* weight of a path.
C21_DijkstraRotulos ==
    \A origem \in RotulosDoGrafo(vertices), destino \in Rotulos :
        LET r == IF direcionado
                 THEN MenorCaminhoDirecionadoPonderado(vertices, origem, destino)
                 ELSE MenorCaminhoNaoDirecionadoPonderado(vertices, origem, destino)
            custos == CustosRotulos(vertices, origem, destino, Len(vertices))
        IN  /\ (r.caminho = <<>>) <=> (custos = {})
            /\ custos # {} =>
                  /\ r.caminho[1] = origem
                  /\ r.caminho[Len(r.caminho)] = destino
                  /\ r.distancia \in SomasDoCaminho(vertices, r.caminho,
                                                    Len(r.caminho))
                  /\ r.distancia = Minimo(custos)

\* C22: in the label-keyed Grafo, after any sequence of adicionarAresta
\* calls no vertex has an adjacency record to itself and no vertex has two
\* adjacency records with the same destino.
C22_SemLacoNemRepeticao ==
    \A k \in DOMAIN vertices :
        LET adjacentes == vertices[k].valor
        IN  /\ \A i \in DOMAIN adjacentes : adjacentes[i].destino # vertices[k].chave
            /\ \A i \in DOMAIN adjacentes, j \in DOMAIN adjacentes :
                  adjacentes[i].destino = adjacentes[j].destino => i = j

\* C23: every algorithm run terminates: on any graph reachable through the
\* mutators and for any valid source vertex, a call of algoritmoBFS,
\* algoritmoDijkstra, algoritmoFloyd, algoritmoKruskal, algoritmoPrim or
\* algoritmoApagaReverso (its depth-first connectivity check and its
\* remove/reinsert loop included) that is running eventually reaches its end.
C23_TodoAlgoritmoTermina ==
    (execucao.pc = "executando") ~> (execucao.pc = "fim")

\* algoritmoApagaReverso has reached its end on an undirected graph that
\* held a cycle: it ran the depth-first check for every edge, dropped one
\* edge and put the others back
C23_Witness ==
    /\ execucao.pc = "fim"
    /\ execucao.algoritmo = "algoritmoApagaReverso"
    /\ ~direcionado
    /\ Len(execucao.st.arestas) = numVertices
    /\ numArestas = numVertices - 1

\* C24: in both DisjointSet variants, in every state reached by find and
\* union calls after initialisation, a find of any element leaves the
\* partition as it is; a union of elements of different sets merges exactly
\* their two sets, every other set untouched, one set fewer; a union of
\* elements of one set changes neither the partition nor any rank; and no
\* call separates two elements that share a representative.
C24_ParticaoDosConjuntos ==
    /\ \A x \in DOMAIN parent :
          LET q == Find(Conjuntos(parent, rank), x).ds
          IN  /\ ParticaoDe(q.parent) = ParticaoDe(parent)
              /\ NuncaSepara(parent, q.parent)
    /\ \A x \in DOMAIN parent, y \in DOMAIN parent :
          LET q == Union(Conjuntos(parent, rank), x, y)
          IN  /\ NuncaSepara(parent, q.parent)
              /\ IF ClasseDe(parent, x) = ClasseDe(parent, y)
                 THEN ParticaoDe(q.parent) = ParticaoDe(parent) /\ q.rank = rank
                 ELSE UneExatamente(parent, q.parent, x, y)
    /\ \A x \in DOMAIN ancestral :
          LET q == EncontrarRepresentante(ObjetoDisjointSet, x).ds
          IN  /\ ParticaoDe(q.ancestral) = ParticaoDe(ancestral)
              /\ NuncaSepara(ancestral, q.ancestral)
    /\ \A x \in DOMAIN ancestral, y \in DOMAIN ancestral :
          LET q == UnirConjuntos(ObjetoDisjointSet, x, y)
          IN  /\ NuncaSepara(ancestral, q.ancestral)
              /\ IF ClasseDe(ancestral, x) = ClasseDe(ancestral, y)
                 THEN /\ ParticaoDe(q.ancestral) = ParticaoDe(ancestral)
                      /\ q.altura = altura
                 ELSE UneExatamente(ancestral, q.ancestral, x, y)

\* a union has merged sets and sets of different sizes remain to be merged
C24_Witness ==
    /\ chamada = "union"
    /\ Cardinality(ParticaoDe(parent)) = 2
    /\ \E x \in DOMAIN parent : Cardinality(ClasseDe(parent, x)) = 3

\* C25: in every state of the index-keyed DisjointSet reached by
\* unirConjuntos and encontrarRepresentante calls, the ancestral links lead
\* from every element, without a cycle, to a root r with ancestral[r] = r;
\* altura[r] is at least the height of the tree of every root r; and
\* encontrarRepresentante(x) leaves every element of the path from x to its
\* root pointing at that root.
C25_FlorestaComAltura ==
    LET n == Cardinality(DOMAIN ancestral)
    IN  /\ \A x \in DOMAIN ancestral :
              LET r == Representante(ancestral, x)
              IN  /\ ancestral[r] = r
                  /\ ProfundidadeDe(ancestral, x, n + 1) < n
                  /\ ProfundidadeDe(ancestral, x, n + 1) <= altura[r]
        /\ \A x \in DOMAIN ancestral :
              LET e == EncontrarRepresentante(ObjetoDisjointSet, x)
              IN  /\ e.raiz = Representante(ancestral, x)
                  /\ \A y \in NoCaminho(ancestral, x, n) :
                        e.ds.ancestral[y] = e.raiz

\* a tree of height 2 was built and encontrarRepresentante has flattened it
C25_Witness ==
    /\ chamada = "encontrarRepresentante"
    /\ \E r \in DOMAIN ancestral :
          /\ altura[r] = 2
          /\ \A x \in DOMAIN ancestral : ancestral[x] = r

\* C26: on a connected undirected weighted graph with at least 2 vertices,
\* the edge list algoritmoPrim rebuilds from pai holds exactly one edge
\* (pai[v], v) for every vertex v other than the start vertex, the one of
\* vertex 0 included (numVertices - 1 edges), each with the weight stored in
\* the adjacency lists, and the total cost reported is the sum of the weights
\* of the edges of that list.
C26_PrimListaDeArestas ==
    (~direcionado /\ ponderado /\ Conexo(listaAdjacencia)) =>
        LET r == AlgoritmoPrim(listaAdjacencia)
        IN  /\ r.valido
            /\ Len(r.arestas) = numVertices - 1
            /\ \A v \in Vertices \ {verticeInicialPrim} :
                  Cardinality({k \in DOMAIN r.arestas :
                                  /\ r.arestas[k].verticeOrigem = r.pai[v]
                                  /\ r.arestas[k].verticeDestino = v}) = 1
            /\ \A k \in DOMAIN r.arestas :
                  \E j \in DOMAIN listaAdjacencia[r.arestas[k].verticeOrigem] :
                     listaAdjacencia[r.arestas[k].verticeOrigem][j]
                        = [verticeAdjacente |-> r.arestas[k].verticeDestino,
                           peso |-> r.arestas[k].peso]
            /\ r.custoTotal = SomaPesos(r.arestas, 1)

\* C27: on a directed weighted graph that has negative edge weights but no
\* cycle of negative weight, the matrix of algoritmoFloyd has dist[i][i] = 0
\* for every i, dist[i][j] equal to the least total weight of the paths from
\* i to j when j is reachable from i, and dist[i][j] = 999999 when it is not.
C27_FloydPesosNegativos ==
    (/\ direcionado
     /\ ponderado
     /\ TemPesoNegativo(listaAdjacencia)
     /\ ~TemCicloNegativo(listaAdjacencia)) =>
        LET dist == AlgoritmoFloyd(listaAdjacencia)
        IN  \A i \in Vertices, j \in Vertices :
               LET custos == CustosAte(listaAdjacencia, i, j, numVertices)
               IN  /\ dist[i][i] = 0
                   /\ custos # {} => dist[i][j] = Minimo(custos)
                   /\ custos = {} => dist[i][j] = INFINITO

\* C28: during every run of algoritmoBFS from a source in range, no vertex
\* is pushed onto the queue twice; a distance is written only to a vertex
\* whose distance was not yet written, at the moment the vertex is pushed,
\* with the distance of the vertex being scanned plus 1; and the vertices
\* leave the queue in non-decreasing order of distance.
C28_BFSFilaEDistancias ==
    [][execucao'.algoritmo = "algoritmoBFS" =>
          /\ LET st == execucao'.st
             IN  /\ \A a \in DOMAIN st.empurrados, b \in DOMAIN st.empurrados :
                       a # b => st.empurrados[a] # st.empurrados[b]
                 /\ \A a \in DOMAIN st.retirados, b \in DOMAIN st.retirados :
                       a < b => st.distancias[st.retirados[a]]
                                   <= st.distancias[st.retirados[b]]
          /\ Executando("algoritmoBFS") =>
                \A v \in Vertices :
                    execucao'.st.distancias[v] # execucao.st.distancias[v] =>
                        /\ execucao.st.distancias[v] = INFINITO
                        /\ execucao.st.u \in Vertices
                        /\ execucao'.st.distancias[v]
                              = execucao.st.distancias[execucao.st.u] + 1
                        /\ execucao'.st.empurrados
                              = Append(execucao.st.empurrados, v)]_vars

\* a run of algoritmoBFS has ended after every vertex left the queue, one of
\* them at distance 2, on a graph where a vertex is met again after its
\* discovery
C28_Witness ==
    /\ execucao.algoritmo = "algoritmoBFS"
    /\ execucao.pc = "fim"
    /\ Len(execucao.st.retirados) = numVertices
    /\ \E v \in Vertices : execucao.st.distancias[v] = 2
    /\ NumEntradas(listaAdjacencia) >= numVertices

\* C29: in a graph built with adicionaAresta, for every stored edge (u, v)
\* of weight w, removeAresta(u, v) followed by adicionaAresta(u, v, w) gives
\* back exactly the adjacency lists (entries, order and weights, both
\* directions when the graph is undirected) and numArestas; and
\* algoritmoApagaReverso run on a tree leaves the graph exactly as it was.
C29_RemoveEReinsere ==
    /\ \A u \in Vertices :
          \A k \in DOMAIN listaAdjacencia[u] :
             LET v == listaAdjacencia[u][k].verticeAdjacente
                 w == listaAdjacencia[u][k].peso
                 removida == RemoveArestaOp(Estado, u, v, FALSE)
                 reposta == AdicionaArestaOp(removida.g, u, v, w)
             IN  /\ removida.retorno = "true"
                 /\ removida.g # Estado
                 /\ reposta.g = Estado
    /\ (/\ ~direcionado
        /\ Conexo(listaAdjacencia)
        /\ Cardinality(ParesLigados(listaAdjacencia)) = numVertices - 1) =>
          AlgoritmoApagaReversoOp(Estado).g = Estado

\* algoritmoApagaReverso has run on a tree whose edges differ in weight, one
\* vertex holding two entries
C29_Witness ==
    /\ chamada = "algoritmoApagaReverso"
    /\ ~direcionado
    /\ ponderado
    /\ Conexo(listaAdjacencia)
    /\ Cardinality(ParesLigados(listaAdjacencia)) = numVertices - 1
    /\ numArestas = numVertices - 1
    /\ \E u \in Vertices :
          /\ Len(listaAdjacencia[u]) >= 2
          /\ listaAdjacencia[u][1].peso # listaAdjacencia[u][2].peso

\* C30: menorCaminhoDirecionado and menorCaminhoNaoDirecionado return null
\* exactly when destino is not reachable from origem along the stored
\* adjacency records; otherwise they return a path that starts at origem,
\* ends at destino, has a stored record between each label and the next, and
\* has the least possible number of edges.
C30_MenorCaminhoRotulos ==
    \A origem \in Rotulos, destino \in Rotulos :
        LET r == IF direcionado
                 THEN MenorCaminhoDirecionado(vertices, origem, destino)
                 ELSE MenorCaminhoNaoDirecionado(vertices, origem, destino)
            alcance == AteKRegistros(vertices, {origem}, Len(vertices))
        IN  /\ (r = <<>>) <=> (destino \notin alcance)
            /\ destino \in alcance =>
                  /\ CaminhoValido(vertices, r, origem, destino)
                  /\ Len(r) - 1 = MenosArestas(vertices, origem, destino)

\* a path was returned on a graph where a label sits in the queue twice: it
\* is pushed from the origin and again from a label dequeued before it
C30_Witness ==
    /\ chamada \in {"menorCaminhoDirecionado", "menorCaminhoNaoDirecionado"}
    /\ retorno = "array"
    /\ \E k \in DOMAIN vertices :
          /\ Len(vertices[k].valor) = 2
          /\ Cardinality({vertices[k].chave, vertices[k].valor[1].destino,
                           vertices[k].valor[2].destino}) = 3
          /\ \E r \in Range(ObtemOuVazio(vertices, vertices[k].valor[1].destino)) :
                r.destino = vertices[k].valor[2].destino

====
